---- MODULE Spec2Model ----
(***************************************************************************)
(* State-machine model of the egui software render backend                 *)
(* (src/src/lib.rs, src/src/dirty_rect.rs, src/src/render.rs).             *)
(*                                                                         *)
(* Conventions                                                             *)
(*  - f32 quantities (positions, clip rectangles) are integers counting    *)
(*    half pixels: 2*v stands for v.  Every input coordinate is an integer *)
(*    number of points, so with the splats 0.5 and 1.5 and the "+ 0.5"     *)
(*    roundings of the code every value is a multiple of one half.         *)
(*  - A pixel buffer is observed at the columns and rows of Sample: its    *)
(*    data is a function on the pairs <<x, y>> of sampled coordinates      *)
(*    inside the buffer (row-major index x + y*width in the code).         *)
(*  - A call that panics ends the run: no operation is enabled afterwards. *)
(***************************************************************************)
EXTENDS Integers, Sequences, FiniteSets, TLC

TILE_SIZE == 64

DIRTY_TILE_MASK == 1

OCCUPIED_TILE_MASK == 2

\* Largest number of render calls in one run.
MaxRenders == 2

\* Largest number of set_caching / clear_cache calls in one run.
MaxAux == 1

Modes == {"BlendTiled", "MeshTiled", "Mesh", "Direct"}

CachingModes == {"BlendTiled", "MeshTiled", "Mesh"}

\* Pixel columns / rows at which buffers are observed.
Sample == {0, 32, 64, 96}

Min(a, b) == IF a < b THEN a ELSE b

Max(a, b) == IF a > b THEN a ELSE b

\* u32::div_ceil
DivCeil(a, b) == (a + b - 1) \div b

\* `v as u32` for an f32 v (half-pixel units): truncation, saturating at 0.
AsU32(h) == IF h < 0 THEN 0 ELSE h \div 2

\* `v as i64` for an f32 v (half-pixel units): truncation toward zero.
AsI64(h) == IF h < 0 THEN -((-h) \div 2) ELSE h \div 2

\* i64::clamp
Clamp(v, lo, hi) == Max(lo, Min(v, hi))

(***************************************************************************)
(* Pixels: premultiplied [u8; 4].                                          *)
(***************************************************************************)
ZeroPx == <<0, 0, 0, 0>>

\* One lane of egui_blend_8_u16x4: mullo, add 0x80, mulhi by 0x0101, packus,
\* saturating add of the source lane.
BlendLane(src, alpha, dst) ==
    LET t   == (dst * (255 - alpha) + 128) % 65536
        res == (t * 257) \div 65536
    IN  Min(255, Min(255, res) + src)

\* dst[i] = blend(src[i], dst[i]) with blend fn (ONE, ONE_MINUS_SRC_ALPHA)
egui_blend_u8(src, dst) ==
    [c \in 1..4 |-> BlendLane(src[c], src[4], dst[c])]

\* unorm multiply of two colours, per channel (a*b + 128 + ((a*b) >> 8)) >> 8
unorm_mult4x4(a, b) ==
    [c \in 1..4 |-> LET p == a[c] * b[c] IN (p + 128 + (p \div 256)) \div 256]

(***************************************************************************)
(* The AVX-512BW slice kernel (color_avx512bw.rs)                          *)
(***************************************************************************)
\* One 16-bit lane of egui_blend_8_u16x4 up to the pack: xor with 0x00FF,
\* mullo, add 0x0080, mulhi by 0x0101.
DstTerm(alpha, d) ==
    LET compl == 255 - alpha
        t     == (((d * compl) % 65536) + 128) % 65536
    IN  (t * 257) \div 65536

\* _mm256_packus_epi16(lo, hi) packs within each 128-bit lane: the eight
\* bytes of lo's lane, then the eight bytes of hi's.  With lo holding the
\* pixels 1..4 and hi the pixels 5..8 of the block (two pixels to a lane
\* half), position j of the result holds the pixel PackOrder[j].
PackOrder == <<1, 2, 5, 6, 3, 4, 7, 8>>

\* egui_blend_8_u16x4 on a block of eight pixels: the packed terms of dst,
\* then _mm256_adds_epu8 with the source bytes in memory order.
egui_blend_8_u16x4(src8, dst8) ==
    LET term == [k \in 1..8 |->
                    [c \in 1..4 |-> Min(255, DstTerm(src8[k][4], dst8[k][c]))]]
    IN  [j \in 1..8 |->
            [c \in 1..4 |-> Min(255, term[PackOrder[j]][c] + src8[j][c])]]

\* The two loops of egui_blend_u8_slice from the (1-based) index i on: blocks
\* of eight while eight pixels are left, then one pixel at a time.
RECURSIVE BlendSliceFrom(_, _, _)
BlendSliceFrom(src, dst, i) ==
    IF (i - 1) + 7 < Len(dst)
    THEN LET out == egui_blend_8_u16x4(SubSeq(src, i, i + 7), SubSeq(dst, i, i + 7))
         IN  BlendSliceFrom(src,
                            [k \in 1..Len(dst) |->
                                IF i <= k /\ k <= i + 7 THEN out[k - i + 1] ELSE dst[k]],
                            i + 8)
    ELSE IF i <= Len(dst)
    THEN BlendSliceFrom(src, [dst EXCEPT ![i] = egui_blend_u8(src[i], dst[i])], i + 1)
    ELSE dst

\* egui_blend_u8_slice: dst after the call (the slices have equal length).
egui_blend_u8_slice(src, dst) == BlendSliceFrom(src, dst, 1)

(***************************************************************************)
(* DirtyRect (dirty_rect.rs)                                               *)
(***************************************************************************)
Rect(x0, y0, x1, y1) == [min_x |-> x0, min_y |-> y0, max_x |-> x1, max_y |-> y1]

new_empty == Rect(0, 0, 0, 0)

\* A snapping that rounds the max corner down as well.
tiled_floor(r) ==
    Rect((r.min_x \div TILE_SIZE) * TILE_SIZE,
         (r.min_y \div TILE_SIZE) * TILE_SIZE,
         (r.max_x \div TILE_SIZE) * TILE_SIZE,
         (r.max_y \div TILE_SIZE) * TILE_SIZE)

tiled(r) ==
    Rect((r.min_x \div TILE_SIZE) * TILE_SIZE,
         (r.min_y \div TILE_SIZE) * TILE_SIZE,
         DivCeil(r.max_x, TILE_SIZE) * TILE_SIZE,
         DivCeil(r.max_y, TILE_SIZE) * TILE_SIZE)

width(r) == r.max_x - r.min_x

height(r) == r.max_y - r.min_y

is_empty(r) == r.min_x = r.max_x \/ r.min_y = r.max_y

intersects(a, b) == a.min_x < b.max_x /\ a.max_x > b.min_x

intersection(a, b) ==
    Rect(Max(a.min_x, b.min_x), Max(a.min_y, b.min_y),
         Min(a.max_x, b.max_x), Min(a.max_y, b.max_y))

union(a, b) ==
    Rect(Min(a.min_x, b.min_x), Min(a.min_y, b.min_y),
         Max(a.max_x, b.max_x), Max(a.max_y, b.max_y))

\* DirtyRect::to_egui_rect, in half pixels.
to_egui_rect(r) ==
    [min |-> <<2 * r.min_x, 2 * r.min_y>>, max |-> <<2 * r.max_x, 2 * r.max_y>>]

\* egui::Rect::intersect
rect_intersect(a, b) ==
    [min |-> <<Max(a.min[1], b.min[1]), Max(a.min[2], b.min[2])>>,
     max |-> <<Min(a.max[1], b.max[1]), Min(a.max[2], b.max[2])>>]

FullRect(w, h) == Rect(0, 0, w, h)

(***************************************************************************)
(* Buffers (BufferMutRef / BufferRef)                                      *)
(***************************************************************************)
Pix(w, h) == {<<x, y>> : x \in {s \in Sample : s < w}, y \in {s \in Sample : s < h}}

Buffer(w, h, d) == [width |-> w, height |-> h, data |-> d]

\* vec![[0u8; 4]; width * height]
ZeroBuffer(w, h) == Buffer(w, h, [p \in Pix(w, h) |-> ZeroPx])

(***************************************************************************)
(* Renderer options fixed at construction (EguiSoftwareRender::new).       *)
(***************************************************************************)
output_field_order == "Rgba"

swizzle_rgba_bgra(c) == <<c[3], c[2], c[1], c[4]>>

(***************************************************************************)
(* Mesh preparation (prim_prepare_px_mesh)                                 *)
(***************************************************************************)
\* Twice the signed area of triangle abc.
egui_orient2df(a, b, c) ==
    (b[1] - a[1]) * (c[2] - a[2]) - (b[2] - a[2]) * (c[1] - a[1])

SetMin(S) == CHOOSE m \in S : \A x \in S : m <= x

SetMax(S) == CHOOSE m \in S : \A x \in S : m >= x

\* Make all the tris face forward: swap indices i+1, i+2 of a triple whose
\* signed area is negative.
OrientIndices(vertices, indices) ==
    [k \in 1..Len(indices) |->
        LET base == ((k - 1) \div 3) * 3
            area == egui_orient2df(vertices[indices[base + 1] + 1].pos,
                                   vertices[indices[base + 2] + 1].pos,
                                   vertices[indices[base + 3] + 1].pos)
            off  == k - base
        IN  IF area < 0 /\ off = 2 THEN indices[base + 3]
            ELSE IF area < 0 /\ off = 3 THEN indices[base + 2]
            ELSE indices[k]]

NonePrepared == [some |-> FALSE]

\* prim_prepare_px_mesh for a mesh that has vertices and indices: scale the
\* clip rectangle and the vertices, find the bounds, orient the triangles.
prepare_mesh(splat, pixels_per_point, job) ==
    LET input_mesh == job.primitive.mesh
        clip_rect ==
            [min |-> <<2 * job.clip_rect.min[1] * pixels_per_point,
                       2 * job.clip_rect.min[2] * pixels_per_point>>,
             max |-> <<2 * job.clip_rect.max[1] * pixels_per_point + splat,
                       2 * job.clip_rect.max[2] * pixels_per_point + splat>>]
        vertices ==
            [k \in 1..Len(input_mesh.vertices) |->
                LET v == input_mesh.vertices[k] IN
                [pos   |-> <<2 * v.pos[1] * pixels_per_point,
                             2 * v.pos[2] * pixels_per_point>>,
                 uv    |-> v.uv,
                 color |-> IF output_field_order = "Bgra"
                           THEN swizzle_rgba_bgra(v.color) ELSE v.color]]
        xs == {vertices[k].pos[1] : k \in 1..Len(vertices)}
        ys == {vertices[k].pos[2] : k \in 1..Len(vertices)}
    IN  [some      |-> TRUE,
         clip_rect |-> clip_rect,
         mesh_min  |-> <<SetMin(xs), SetMin(ys)>>,
         mesh_max  |-> <<SetMax(xs), SetMax(ys)>>,
         px_mesh   |-> [texture_id |-> input_mesh.texture_id,
                        vertices   |-> vertices,
                        indices    |-> OrientIndices(vertices, input_mesh.indices)]]

\* A preparation that lets a mesh without indices through.
prim_prepare_px_mesh_keeps_no_indices(splat, pixels_per_point, job) ==
    IF job.primitive.kind = "Callback" THEN NonePrepared
    ELSE IF Len(job.primitive.mesh.vertices) = 0 THEN NonePrepared
    ELSE prepare_mesh(splat, pixels_per_point, job)

prim_prepare_px_mesh(splat, pixels_per_point, job) ==
    IF job.primitive.kind = "Callback" THEN NonePrepared
    ELSE IF Len(job.primitive.mesh.vertices) = 0 \/ Len(job.primitive.mesh.indices) = 0
    THEN NonePrepared
    ELSE prepare_mesh(splat, pixels_per_point, job)

(***************************************************************************)
(* Rasterisation (draw_egui_mesh_impl, draw_rect, draw_tri)                *)
(***************************************************************************)
tri_verts_match_corners(tri_min, tri_max, tri, tri2) ==
    \A t \in {tri, tri2} : \A k \in 1..3 :
        /\ (t[k].pos[1] = tri_min[1] \/ t[k].pos[1] = tri_max[1])
        /\ (t[k].pos[2] = tri_min[2] \/ t[k].pos[2] = tri_max[2])

\* The integer clip bounds of draw_egui_mesh_impl.
ClipBounds(clip_rect, buffer) ==
    [min |-> <<Clamp(AsI64(clip_rect.min[1] + 1), 0, buffer.width),
               Clamp(AsI64(clip_rect.min[2] + 1), 0, buffer.height)>>,
     max |-> <<Clamp(AsI64(clip_rect.max[1] + 1), 0, buffer.width),
               Clamp(AsI64(clip_rect.max[2] + 1), 0, buffer.height)>>]

\* The pixel (x, y) is sampled at its centre; a triangle with positive
\* oriented area covers the centres on the inner side of its three edges.
TriCovers(tri, x, y) ==
    LET p == <<2 * x + 1, 2 * y + 1>>
        a == tri[1].pos
        b == tri[2].pos
        c == tri[3].pos
    IN  /\ egui_orient2df(a, b, c) > 0
        /\ egui_orient2df(a, b, p) >= 0
        /\ egui_orient2df(b, c, p) >= 0
        /\ egui_orient2df(c, a, p) >= 0

\* draw_rect: the integer span of the rectangle under the pixel-centre rule.
RectCovers(tri_min, tri_max, x, y) ==
    /\ AsI64(tri_min[1] + 1) <= x /\ x < AsI64(tri_max[1] + 1)
    /\ AsI64(tri_min[2] + 1) <= y /\ y < AsI64(tri_max[2] + 1)

\* The draw calls draw_egui_mesh_impl issues for the index triples from the
\* (1-based) position i on: a sequence of [kind, at, tri, tri_min, tri_max,
\* src, alpha_blend], `at` being the value of the code's i at the call.  tex
\* is the colour of the (uniform) texture.
RECURSIVE MeshDraws(_, _, _, _, _, _)
MeshDraws(mesh, vert_offset, tex, allow_raster_opt, convert_tris_to_rects, i) ==
    IF i > Len(mesh.indices) THEN <<>>
    ELSE
    LET vert(k) == LET v == mesh.vertices[mesh.indices[k] + 1] IN
                   [v EXCEPT !.pos = <<v.pos[1] + vert_offset[1], v.pos[2] + vert_offset[2]>>]
        tri     == <<vert(i), vert(i + 1), vert(i + 2)>>
        tri_min == <<SetMin({tri[k].pos[1] : k \in 1..3}), SetMin({tri[k].pos[2] : k \in 1..3})>>
        tri_max == <<SetMax({tri[k].pos[1] : k \in 1..3}), SetMax({tri[k].pos[2] : k \in 1..3})>>
        src     == unorm_mult4x4(tri[1].color, tex)
        vert_uvs_vary == ~(tri[1].uv = tri[2].uv /\ tri[1].uv = tri[3].uv)
        vert_col_vary == ~(tri[1].color = tri[2].color /\ tri[1].color = tri[3].color)
        alpha_blend ==
            ~ \/ (~vert_uvs_vary /\ ~vert_col_vary /\ src[4] = 255)
              \/ (~vert_uvs_vary /\ vert_col_vary /\ tex[4] = 255
                    /\ \A k \in 1..3 : tri[k].color[4] = 255)
        find_rects == convert_tris_to_rects /\ ~vert_col_vary /\ (i - 1) + 6 < Len(mesh.indices)
        tri2      == <<vert(i + 3), vert(i + 4), vert(i + 5)>>
        tri_area  == LET a == egui_orient2df(tri[1].pos, tri[2].pos, tri[3].pos)
                     IN  IF a < 0 THEN -a ELSE a
        rect_area == (tri_max[1] - tri_min[1]) * (tri_max[2] - tri_min[2])
        \* |tri_area - rect_area| < 0.5 px^2 (areas here count quarter px^2)
        areas_match == tri_area - rect_area < 2 /\ rect_area - tri_area < 2
        found_rect == find_rects /\ tri_verts_match_corners(tri_min, tri_max, tri, tri2)
                        /\ areas_match
        op(kind, blend) == [kind |-> kind, at |-> i - 1, tri |-> tri, tri_min |-> tri_min,
                            tri_max |-> tri_max, src |-> src, alpha_blend |-> blend]
    IN  IF tri_max[1] - tri_min[1] <= 0 \/ tri_max[2] - tri_min[2] <= 0
        THEN MeshDraws(mesh, vert_offset, tex, allow_raster_opt, convert_tris_to_rects, i + 3)
        ELSE IF ~allow_raster_opt
        THEN <<op("tri", TRUE)>> \o MeshDraws(mesh, vert_offset, tex, allow_raster_opt, convert_tris_to_rects, i + 3)
        ELSE IF found_rect /\ rect_area < 1
        THEN MeshDraws(mesh, vert_offset, tex, allow_raster_opt, convert_tris_to_rects, i + 6)
        ELSE IF found_rect
        \* draw_rect blends unless colour and uv are constant and opaque
        THEN <<op("rect", alpha_blend \/ vert_uvs_vary)>>
                \o MeshDraws(mesh, vert_offset, tex, allow_raster_opt, convert_tris_to_rects, i + 6)
        ELSE <<op("tri", alpha_blend)>> \o MeshDraws(mesh, vert_offset, tex, allow_raster_opt, convert_tris_to_rects, i + 3)

\* The value of pixel p after the draw calls ops[k..] were applied to value px.
RECURSIVE ApplyDraws(_, _, _, _, _)
ApplyDraws(ops, k, cb, p, px) ==
    IF k > Len(ops) THEN px
    ELSE
    LET o == ops[k]
        inclip == /\ cb.min[1] <= p[1] /\ p[1] < cb.max[1]
                  /\ cb.min[2] <= p[2] /\ p[2] < cb.max[2]
        hit == /\ inclip
               /\ IF o.kind = "rect" THEN RectCovers(o.tri_min, o.tri_max, p[1], p[2])
                  ELSE TriCovers(o.tri, p[1], p[2])
        nx == IF ~hit THEN px
              ELSE IF o.alpha_blend THEN egui_blend_u8(o.src, px) ELSE o.src
    IN  ApplyDraws(ops, k + 1, cb, p, nx)

\* The triangle loop of draw_egui_mesh_impl once the clip bounds cb are known:
\* nothing is drawn into an empty clip, else the draw calls ops are applied.
draw_clipped(buffer, cb, ops) ==
    IF cb.max[1] - cb.min[1] <= 0 \/ cb.max[2] - cb.min[2] <= 0 THEN buffer
    ELSE [buffer EXCEPT !.data = [p \in DOMAIN buffer.data |->
                                     ApplyDraws(ops, 1, cb, p, buffer.data[p])]]

\* draw_egui_mesh: returns the buffer after the mesh was drawn into it.
\* textures maps a texture id to [present, color]: whether the store holds the
\* texture, and the colour of its (uniform) pixels.
draw_egui_mesh(textures, buffer, clip_rect, mesh, vert_offset, allow_raster_opt, convert_tris_to_rects) ==
    IF Len(mesh.vertices) = 0 \/ Len(mesh.indices) = 0 THEN buffer
    ELSE IF ~textures[mesh.texture_id].present THEN buffer
    ELSE draw_clipped(buffer, ClipBounds(clip_rect, buffer),
                      MeshDraws(mesh, vert_offset, textures[mesh.texture_id].color,
                                allow_raster_opt, convert_tris_to_rects, 1))

(***************************************************************************)
(* ComputeTiledDirtyRects (dirty_rect.rs)                                  *)
(***************************************************************************)
\* The elements of a finite set of integers in ascending order
\* (sort_unstable + dedup).
RECURSIVE SortedSeq(_)
SortedSeq(S) ==
    IF S = {} THEN <<>> ELSE LET m == SetMin(S) IN <<m>> \o SortedSeq(S \ {m})

\* intervals.sort_unstable_by(|a, b| a.0.cmp(&b.0))
RECURSIVE SortByStart(_)
SortByStart(iv) ==
    IF Len(iv) = 0 THEN <<>>
    ELSE LET k == CHOOSE k \in 1..Len(iv) : \A j \in 1..Len(iv) : iv[k][1] <= iv[j][1]
         IN  <<iv[k]>> \o SortByStart([j \in 1..(Len(iv) - 1) |->
                                          IF j < k THEN iv[j] ELSE iv[j + 1]])

\* A merge that yields every interval as it comes.
MergeSortedNever(iv, k, last) ==
    <<last>> \o [j \in 1..(Len(iv) - k + 1) |-> iv[k + j - 1]]

\* merge_intervals: the merged intervals of a sequence sorted by start, in
\* the order they are yielded; last is the interval being grown.
RECURSIVE MergeSorted(_, _, _)
MergeSorted(iv, k, last) ==
    IF k > Len(iv) THEN <<last>>
    ELSE IF iv[k][1] <= last[2]
    THEN MergeSorted(iv, k + 1, <<last[1], Max(last[2], iv[k][2])>>)
    ELSE <<last>> \o MergeSorted(iv, k + 1, iv[k])

\* A merge that takes the intervals in the order they were pushed.
merge_intervals_unsorted(intervals) ==
    IF Len(intervals) = 0 THEN <<>>
    ELSE MergeSorted(intervals, 2, intervals[1])

merge_intervals(intervals) ==
    IF Len(intervals) = 0 THEN <<>>
    ELSE LET iv == SortByStart(intervals) IN MergeSorted(iv, 2, iv[1])

\* The closure given to merge_intervals: extend the last emitted rect or push.
RECURSIVE YieldStrip(_, _, _, _, _)
YieldStrip(out, merged, k, min_y, max_y) ==
    IF k > Len(merged) THEN out
    ELSE
    LET m == merged[k]
        n == Len(out)
    IN  IF n > 0 /\ out[n].min_x = m[1] /\ out[n].max_x = m[2] /\ out[n].max_y = min_y
        THEN YieldStrip([out EXCEPT ![n].max_y = max_y], merged, k + 1, min_y, max_y)
        ELSE YieldStrip(Append(out, Rect(m[1], min_y, m[2], max_y)), merged, k + 1,
                        min_y, max_y)

RECURSIVE Strips(_, _, _, _)
Strips(out, bboxes, ys, k) ==
    IF k + 1 > Len(ys) THEN out
    ELSE
    LET min_y == ys[k]
        max_y == ys[k + 1]
        Hit(b) == b.min_y < max_y /\ b.max_y > min_y
        hits == SelectSeq(bboxes, Hit)
        x_intervals == [j \in 1..Len(hits) |-> <<hits[j].min_x, hits[j].max_x>>]
    IN  Strips(YieldStrip(out, merge_intervals(x_intervals), 1, min_y, max_y),
               bboxes, ys, k + 1)

\* set_bboxes: the new minimal_non_overlapping_bboxes for the given boxes.
set_bboxes(boxes) ==
    LET bboxes == [k \in 1..Len(boxes) |-> tiled(boxes[k])]
        ys == SortedSeq({bboxes[k].min_y : k \in 1..Len(bboxes)}
                            \cup {bboxes[k].max_y : k \in 1..Len(bboxes)})
    IN  Strips(<<>>, bboxes, ys, 1)

\* intersections: the bboxes that intersect the probe, each cut to the probe.
intersections(bboxes, other) ==
    LET Hit(b) == intersects(b, other)
        hits == SelectSeq(bboxes, Hit)
    IN  [k \in 1..Len(hits) |-> intersection(hits[k], other)]

(***************************************************************************)
(* Texture store (set_textures / free_textures)                            *)
(***************************************************************************)
Tex0 == [kind |-> "Managed", id |-> 0]

\* A texture id no delta ever uploads.
Tex1 == [kind |-> "Managed", id |-> 1]

TexIds == {Tex0, Tex1}

White == <<255, 255, 255, 255>>

NoTextures == [t \in TexIds |-> [present |-> FALSE, color |-> ZeroPx]]

NoDelta == [set |-> <<>>, free |-> {}]

\* A delta entry is [id, patch, color]: patch is `delta.pos.is_some()`, color
\* the colour of the image's pixels.
RECURSIVE SetTexturesFrom(_, _, _)
SetTexturesFrom(textures, set, k) ==
    IF k > Len(set) THEN textures
    ELSE
    LET d == set[k]
        next == IF d.patch
                THEN IF textures[d.id].present
                     THEN [textures EXCEPT ![d.id].color = d.color]
                     ELSE textures
                ELSE [textures EXCEPT ![d.id] = [present |-> TRUE, color |-> d.color]]
    IN  SetTexturesFrom(next, set, k + 1)

set_textures(self, textures_delta) ==
    [self EXCEPT !.textures = SetTexturesFrom(self.textures, textures_delta.set, 1)]

free_textures(self, textures_delta) ==
    [self EXCEPT !.textures =
        [t \in TexIds |-> IF t \in textures_delta.free
                          THEN [present |-> FALSE, color |-> ZeroPx]
                          ELSE self.textures[t]]]

(***************************************************************************)
(* Cache entries                                                           *)
(***************************************************************************)
CacheReuse(z, rect, seen, rendered) ==
    [z_order |-> z, rect |-> rect, seen_this_frame |-> seen,
     rendered_this_frame |-> rendered]

EmptyMap == [h \in {} |-> 0]

MapInsert(m, k, v) == [h \in DOMAIN m \cup {k} |-> IF h = k THEN v ELSE m[h]]

\* HashMap::values() in some iteration order.
RECURSIVE KeySeq(_)
KeySeq(K) == IF K = {} THEN <<>> ELSE LET k == CHOOSE k \in K : TRUE IN <<k>> \o KeySeq(K \ {k})

Values(m) == LET ks == KeySeq(DOMAIN m) IN [i \in 1..Len(ks) |-> m[ks[i]]]

\* The collected values left as the map yielded them.
Unsorted(es) == es

\* values().collect() followed by sort_unstable_by_key(|prim| prim.inner.z_order)
RECURSIVE SortByZ(_)
SortByZ(es) ==
    IF Len(es) = 0 THEN <<>>
    ELSE LET k == CHOOSE k \in 1..Len(es) :
                    \A j \in 1..Len(es) : es[k].inner.z_order <= es[j].inner.z_order
         IN  <<es[k]>> \o SortByZ([j \in 1..(Len(es) - 1) |->
                                      IF j < k THEN es[j] ELSE es[j + 1]])

\* The candidate tiles first_x..last_x-1 by first_y..last_y-1, rows outermost.
TileSeq(first_x, last_x, first_y, last_y) ==
    LET nx == Max(0, last_x - first_x)
        ny == Max(0, last_y - first_y)
    IN  [k \in 1..(nx * ny) |-> <<first_x + ((k - 1) % nx), first_y + ((k - 1) \div nx)>>]

\* TiledCachedPrimitive::update_occupied_tiles: the tiles in which the scan
\* finds a pixel of the bitmap `data` whose 32-bit value is not zero.
update_occupied_tiles(rect, data, tiles_wide, tiles_tall) ==
    LET max_x == rect.max_x
        max_y == rect.max_y
        first_tile_x == Min(rect.min_x \div TILE_SIZE, tiles_wide)
        first_tile_y == Min(rect.min_y \div TILE_SIZE, tiles_tall)
        last_tile_x  == Min(DivCeil(max_x, TILE_SIZE), tiles_wide)
        last_tile_y  == Min(DivCeil(max_y, TILE_SIZE), tiles_tall)
        Occupied(t) ==
            LET sy0 == Max(t[2] * TILE_SIZE, rect.min_y)
                px_start_y == sy0 - rect.min_y
                px_end_y   == Min(sy0 + TILE_SIZE, max_y) - rect.min_y
                sx0 == Max(t[1] * TILE_SIZE, rect.min_x)
                px_start_x == sx0 - rect.min_x
                px_end_x   == Min(sx0 + TILE_SIZE, max_x) - rect.min_x
            IN  \E p \in DOMAIN data :
                    /\ px_start_x <= p[1] /\ p[1] < px_end_x
                    /\ px_start_y <= p[2] /\ p[2] < px_end_y
                    /\ data[p] # ZeroPx
    IN  SelectSeq(TileSeq(first_tile_x, last_tile_x, first_tile_y, last_tile_y), Occupied)

\* The cache entry of tiled mode for the bitmap render_prim has drawn.
TiledCachedPrimitive(self, prim, drawn) ==
    [inner |-> prim,
     buffer |-> drawn.data,
     occupied_tiles |-> update_occupied_tiles(prim.rect, drawn.data,
                                              self.tiles_dim[1], self.tiles_dim[2])]

\* render_prim: rasterise the primitive into a bitmap of its own.
render_prim(self, prim, cropped_min, cropped_max, clip_rect, px_mesh) ==
    LET w == width(prim.rect)
        h == height(prim.rect)
        clip == [min |-> <<0, 0>>,
                 max |-> <<cropped_max[1] - cropped_min[1], cropped_max[2] - cropped_min[2]>>]
        \* -vec2(cropped_min.x.floor(), cropped_min.y.floor())
        offset == <<-(2 * (cropped_min[1] \div 2)), -(2 * (cropped_min[2] \div 2))>>
    IN  TiledCachedPrimitive(self, prim,
            draw_egui_mesh(self.textures, ZeroBuffer(w, h), clip, px_mesh, offset,
                           self.allow_raster_opt, self.convert_tris_to_rects))

\* The closure render_meshmaybetiled passes: keep the prepared mesh.
mesh_prim(self, prim, cropped_min, cropped_max, clip_rect, px_mesh) ==
    [inner |-> prim, px_mesh |-> px_mesh, clip_rect |-> clip_rect]

\* The key fed to Hash32 by prim_prepare_update, in feeding order.  The
\* digest is taken to be collision free.
PrimHash(cropped_size, px_mesh) ==
    <<cropped_size[1], cropped_size[2],
      IF px_mesh.texture_id.kind = "Managed" THEN px_mesh.texture_id.id
      ELSE px_mesh.texture_id.id + 9358476,    \* ids here are far from wrapping
      [k \in 1..Len(px_mesh.indices) |->
          LET v == px_mesh.vertices[px_mesh.indices[k] + 1]
          IN  <<v.pos[1], v.pos[2], v.uv[1], v.uv[2], v.color>>],
      Len(px_mesh.indices)>>

\* A cache that never recognises a primitive.
CacheHitNever(cached_keys, hash) == FALSE

\* Whether the hash of a primitive is already a key of the cache map.
CacheHit(cached_keys, hash) == hash \in cached_keys

\* prim_prepare_update from the prepared mesh pp on: crop, hash, look up the
\* cache, render on a miss.
prepared_update(self, cached_keys, prim_idx, pp, tiled_mode) ==
    IF ~pp.some THEN [tag |-> "None"]
    ELSE
    LET cropped_min == <<Max(pp.mesh_min[1], pp.clip_rect.min[1]),
                         Max(pp.mesh_min[2], pp.clip_rect.min[2])>>
        cropped_max == <<Min(pp.mesh_max[1], pp.clip_rect.max[1]),
                         Min(pp.mesh_max[2], pp.clip_rect.max[2])>>
        w == AsU32(cropped_max[1] - cropped_min[1] + 1)
        h == AsU32(cropped_max[2] - cropped_min[2] + 1)
        hash == PrimHash(<<cropped_max[1] - cropped_min[1], cropped_max[2] - cropped_min[2]>>,
                         pp.px_mesh)
        rect == Rect(AsU32(cropped_min[1]), AsU32(cropped_min[2]),
                     AsU32(cropped_min[1]) + w, AsU32(cropped_min[2]) + h)
    IN  IF CacheHit(cached_keys, hash)
        THEN [tag |-> "CacheReuse", hash |-> hash,
              reuse |-> CacheReuse(prim_idx, rect, TRUE, FALSE)]
        ELSE IF w > 8192 \/ h > 8192 THEN [tag |-> "None"]
        ELSE IF w = 0 \/ h = 0 THEN [tag |-> "None"]
        ELSE [tag |-> "New", hash |-> hash,
              prim |-> IF tiled_mode
                       THEN render_prim(self, CacheReuse(prim_idx, rect, TRUE, TRUE),
                                        cropped_min, cropped_max, pp.clip_rect, pp.px_mesh)
                       ELSE mesh_prim(self, CacheReuse(prim_idx, rect, TRUE, TRUE),
                                      cropped_min, cropped_max, pp.clip_rect, pp.px_mesh)]

\* prim_prepare_update for the primitive at index prim_idx; tiled_mode says
\* which closure f is (render_prim or the mesh closure).
prim_prepare_update(self, cached_keys, pixels_per_point, prim_idx, paint_job, tiled_mode) ==
    prepared_update(self, cached_keys, prim_idx,
                    prim_prepare_px_mesh(1, pixels_per_point, paint_job), tiled_mode)

\* The single-threaded write-back of render_prims_to_cache, in input order.
RECURSIVE ApplyUpdates(_, _, _)
ApplyUpdates(cached, updates, k) ==
    IF k > Len(updates) THEN cached
    ELSE
    LET u == updates[k]
        next == IF u.tag = "CacheReuse"
                THEN IF u.hash \in DOMAIN cached
                     THEN [cached EXCEPT ![u.hash].inner = u.reuse]
                     ELSE cached
                ELSE IF u.tag = "New" THEN MapInsert(cached, u.hash, u.prim)
                ELSE cached
    IN  ApplyUpdates(next, updates, k + 1)

render_prims_to_cache(self, cached, paint_jobs, pixels_per_point, tiled_mode) ==
    ApplyUpdates(cached,
                 [k \in 1..Len(paint_jobs) |->
                     prim_prepare_update(self, DOMAIN cached, pixels_per_point,
                                         k - 1, paint_jobs[k], tiled_mode)],
                 1)

(***************************************************************************)
(* Dirty tracking                                                          *)
(***************************************************************************)
Changed(e) == ~e.inner.seen_this_frame \/ e.inner.rendered_this_frame

RECURSIVE UnionChanged(_, _, _)
UnionChanged(vals, k, dirty_rect) ==
    IF k > Len(vals) THEN dirty_rect
    ELSE IF Changed(vals[k])
    THEN UnionChanged(vals, k + 1,
                      IF is_empty(dirty_rect) THEN vals[k].inner.rect
                      ELSE union(dirty_rect, vals[k].inner.rect))
    ELSE UnionChanged(vals, k + 1, dirty_rect)

update_dirty_rect(cached) == UnionChanged(Values(cached), 1, new_empty)

InSeq(x, sq) == \E i \in 1..Len(sq) : sq[i] = x

\* A tile of some entry indexes past the end of the flag array.
TileIndexOutOfBounds(tiles_dim, cached) ==
    \E h \in DOMAIN cached : \E i \in 1..Len(cached[h].occupied_tiles) :
        LET t == cached[h].occupied_tiles[i]
        IN  t[1] + t[2] * tiles_dim[1] >= tiles_dim[1] * tiles_dim[2]

\* A flag update that marks every occupied tile DIRTY.
update_dirty_tiles_all(self, cached) ==
    LET n == self.tiles_dim[1] * self.tiles_dim[2]
        Hits(idx) == {h \in DOMAIN cached :
                        \E i \in 1..Len(cached[h].occupied_tiles) :
                            LET t == cached[h].occupied_tiles[i]
                            IN  t[1] + t[2] * self.tiles_dim[1] = idx}
    IN  [self EXCEPT !.dirty_tiles =
            [k \in 1..n |->
                IF Hits(k - 1) # {} THEN DIRTY_TILE_MASK + OCCUPIED_TILE_MASK ELSE 0]]

update_dirty_tiles(self, cached) ==
    LET n == self.tiles_dim[1] * self.tiles_dim[2]
        Hits(idx) == {h \in DOMAIN cached :
                        \E i \in 1..Len(cached[h].occupied_tiles) :
                            LET t == cached[h].occupied_tiles[i]
                            IN  t[1] + t[2] * self.tiles_dim[1] = idx}
    IN  [self EXCEPT !.dirty_tiles =
            [k \in 1..n |->
                (IF \E h \in Hits(k - 1) : Changed(cached[h]) THEN DIRTY_TILE_MASK ELSE 0)
                + (IF Hits(k - 1) # {} THEN OCCUPIED_TILE_MASK ELSE 0)]]

update_dirty_rects(self, cached) ==
    IF self.caching = "MeshTiled"
    THEN LET changed == SelectSeq(Values(cached), Changed)
         IN  [self EXCEPT !.dirty_rects =
                 set_bboxes([k \in 1..Len(changed) |-> changed[k].inner.rect])]
    ELSE self

\* The tile grid for a canvas of the given size.
TilesDim(w, h) == <<DivCeil(w, TILE_SIZE), DivCeil(h, TILE_SIZE)>>

\* A return value that ignores the full-redraw flag.
ReturnedRectDirtyOnly(redraw_everything_this_frame, canvas, dirty_rect) == dirty_rect

\* The rect prepare_render_cache returns for the dirty rect it computed.
ReturnedRect(redraw_everything_this_frame, canvas, dirty_rect) ==
    IF redraw_everything_this_frame THEN FullRect(canvas.width, canvas.height)
    ELSE dirty_rect

\* A retain that removes no entry.
RetainAll(cached) == cached

\* cached_primitives.retain(|_hash, prim| prim.seen_this_frame)
RetainSeen(cached) ==
    [h \in {k \in DOMAIN cached : cached[k].inner.seen_this_frame} |-> cached[h]]

\* The outcome of a call that panicked: cause names the failed assertion, self
\* and cached are as the assertion found them.
Panicked(cause, self, cached) ==
    [panic |-> TRUE, cause |-> cause, self |-> self, cached |-> cached,
     dirty_rect |-> new_empty]

\* prepare_render_cache from update_dirty_rect on: s2 is self after
\* set_textures, c2 the cache map after render_prims_to_cache.
track_dirty(s2, c2, canvas, redraw_everything_this_frame, textures_delta, tiled_mode) ==
    LET dirty_rect == update_dirty_rect(c2)
        oob == tiled_mode /\ ~is_empty(dirty_rect) /\ TileIndexOutOfBounds(s2.tiles_dim, c2)
        s3 == IF is_empty(dirty_rect) \/ oob THEN s2
              ELSE IF tiled_mode THEN update_dirty_tiles(s2, c2)
              ELSE update_dirty_rects(s2, c2)
    IN  IF oob
        THEN Panicked("index out of bounds", s2, c2)
        ELSE [panic |-> FALSE, cause |-> "",
              self |-> free_textures(s3, textures_delta),
              cached |-> RetainSeen(c2),
              dirty_rect |-> ReturnedRect(redraw_everything_this_frame, canvas, dirty_rect)]

\* prepare_render_cache: [panic, cause, self, cached, dirty_rect]
prepare_render_cache(self, cached, canvas, redraw_everything_this_frame, paint_jobs, textures_delta, pixels_per_point, tiled_mode) ==
    IF ~(canvas.width > 0)
    THEN Panicked("canvas.width > 0", self, cached)
    ELSE IF ~(canvas.height > 0)
    THEN Panicked("canvas.height > 0", self, cached)
    ELSE IF ~(pixels_per_point > 0)
    THEN Panicked("pixels_per_point > 0.0", self, cached)
    ELSE IF ~redraw_everything_this_frame
            /\ self.cached_size # <<canvas.width, canvas.height>>
    THEN Panicked("cached_size == (width, height)", self, cached)
    ELSE
    LET c0 == IF redraw_everything_this_frame THEN EmptyMap ELSE cached
        s1 == [self EXCEPT !.cached_size = <<canvas.width, canvas.height>>,
                           !.tiles_dim = TilesDim(canvas.width, canvas.height)]
        c1 == [h \in DOMAIN c0 |-> [c0[h] EXCEPT !.inner.seen_this_frame = FALSE]]
        s2 == set_textures(s1, textures_delta)
    IN  track_dirty(s2,
                    render_prims_to_cache(s2, c1, paint_jobs, pixels_per_point, tiled_mode),
                    canvas, redraw_everything_this_frame, textures_delta, tiled_mode)

(***************************************************************************)
(* Compositing                                                             *)
(***************************************************************************)
\* The value of canvas pixel p of tile (tile_x, tile_y) after the cached
\* bitmaps sorted_prim_cache[k..] were blended over the value px.
RECURSIVE BlendPrims(_, _, _, _, _, _, _, _)
BlendPrims(sorted_prim_cache, k, canvas, tile_x, tile_y, full_height, p, px) ==
    IF k > Len(sorted_prim_cache) THEN px
    ELSE
    LET prim == sorted_prim_cache[k]
        r == prim.inner.rect
        tile_x_start == tile_x * TILE_SIZE
        tile_y_start == tile_y * TILE_SIZE
        tile_x_end == Min(tile_x_start + TILE_SIZE, canvas.width)
        tile_y_end == Min(tile_y_start + TILE_SIZE, full_height)
        min_x == Min(Max(r.min_x, tile_x_start), canvas.width)
        min_y == Min(Max(r.min_y, tile_y_start), canvas.height)
        max_x == Min(Min(r.max_x, tile_x_end), canvas.width)
        max_y == Min(Min(r.max_y, tile_y_end), canvas.height)
        prim_x_min == Min(min_x - r.min_x, width(r))
        prim_y == Min(p[2] - r.min_y, height(r))
        hit == /\ InSeq(<<tile_x, tile_y>>, prim.occupied_tiles)
               /\ ~(max_x <= min_x \/ max_y <= min_y)
               /\ min_x <= p[1] /\ p[1] < max_x
               /\ min_y <= p[2] /\ p[2] < max_y
    IN  BlendPrims(sorted_prim_cache, k + 1, canvas, tile_x, tile_y, full_height, p,
                   IF hit
                   THEN egui_blend_u8(prim.buffer[<<prim_x_min + (p[1] - min_x), prim_y>>], px)
                   ELSE px)

\* update_canvas_tile (tile walk without rayon: canvas_row_offset = 0): clear
\* the tile, then redraw the cached prims on it.
update_canvas_tile(sorted_prim_cache, canvas, tile_x, tile_y, full_height) ==
    LET tile_x_start == tile_x * TILE_SIZE
        tile_y_start == tile_y * TILE_SIZE
        tile_x_end == Min(tile_x_start + TILE_SIZE, canvas.width)
        tile_y_end == Min(tile_y_start + TILE_SIZE, full_height)
        InTile(p) == /\ tile_x_start <= p[1] /\ p[1] < tile_x_end
                     /\ tile_y_start <= p[2] /\ p[2] < tile_y_end
    IN  [canvas EXCEPT !.data =
            [p \in DOMAIN canvas.data |->
                IF InTile(p)
                THEN BlendPrims(sorted_prim_cache, 1, canvas, tile_x, tile_y, full_height,
                                p, ZeroPx)
                ELSE canvas.data[p]]]

RECURSIVE CompositeTiles(_, _, _, _)
CompositeTiles(self, sorted_prim_cache, canvas, k) ==
    IF k > Len(self.dirty_tiles) THEN canvas
    ELSE IF (self.dirty_tiles[k] % 2) = DIRTY_TILE_MASK
    THEN CompositeTiles(self, sorted_prim_cache,
                        update_canvas_tile(sorted_prim_cache, canvas,
                                           (k - 1) % self.tiles_dim[1],
                                           (k - 1) \div self.tiles_dim[1],
                                           canvas.height),
                        k + 1)
    ELSE CompositeTiles(self, sorted_prim_cache, canvas, k + 1)

render_from_tiledcache(self, cached, canvas) ==
    CompositeTiles(self, SortByZ(Values(cached)), canvas, 1)

\* The clip rectangles one cached mesh is redrawn with.
MeshRedrawRects(self, prim, dirty_rect) ==
    IF self.caching = "MeshTiled" THEN intersections(self.dirty_rects, prim.inner.rect)
    ELSE <<dirty_rect>>

RECURSIVE RedrawMesh(_, _, _, _, _)
RedrawMesh(self, prim, rects, k, buffer) ==
    IF k > Len(rects) THEN buffer
    ELSE RedrawMesh(self, prim, rects, k + 1,
                    draw_egui_mesh(self.textures, buffer,
                                   rect_intersect(prim.clip_rect, to_egui_rect(rects[k])),
                                   prim.px_mesh, <<0, 0>>,
                                   self.allow_raster_opt, self.convert_tris_to_rects))

RECURSIVE RedrawMeshes(_, _, _, _, _)
RedrawMeshes(self, sorted_prim_cache, dirty_rect, k, buffer) ==
    IF k > Len(sorted_prim_cache) THEN buffer
    ELSE RedrawMeshes(self, sorted_prim_cache, dirty_rect, k + 1,
                      RedrawMesh(self, sorted_prim_cache[k],
                                 MeshRedrawRects(self, sorted_prim_cache[k], dirty_rect),
                                 1, buffer))

render_from_meshcache(self, cached, direct_draw_buffer, dirty_rect) ==
    RedrawMeshes(self, SortByZ(Values(cached)), dirty_rect, 1, direct_draw_buffer)

\* The body of render_direct's loop for the prepared mesh pp.
draw_prepared(self, buffer, pp) ==
    IF \/ ~pp.some
       \/ pp.mesh_max[1] - pp.mesh_min[1] > 2 * 8192
       \/ pp.mesh_max[2] - pp.mesh_min[2] > 2 * 8192
    THEN buffer
    ELSE draw_egui_mesh(self.textures, buffer, pp.clip_rect, pp.px_mesh, <<0, 0>>,
                        self.allow_raster_opt, self.convert_tris_to_rects)

RECURSIVE DrawDirect(_, _, _, _, _)
DrawDirect(self, paint_jobs, pixels_per_point, k, buffer) ==
    IF k > Len(paint_jobs) THEN buffer
    ELSE DrawDirect(self, paint_jobs, pixels_per_point, k + 1,
                    draw_prepared(self, buffer,
                                  prim_prepare_px_mesh(3, pixels_per_point, paint_jobs[k])))

\* render_direct: [self, buffer]
render_direct(self, direct_draw_buffer, paint_jobs, textures_delta, pixels_per_point) ==
    LET s1 == set_textures(self, textures_delta)
    IN  [self |-> free_textures(s1, textures_delta),
         buffer |-> DrawDirect(s1, paint_jobs, pixels_per_point, 1, direct_draw_buffer)]

(***************************************************************************)
(* EguiSoftwareRender                                                      *)
(***************************************************************************)
\* A clear_cache that drops the cache maps only.
clear_cache_maps_only(r) ==
    [r EXCEPT !.tiledcached_primitives = EmptyMap,
              !.dirtycached_primitives = EmptyMap]

\* clear_cache: the two cache maps, the tile flags and the dirty bboxes.
clear_cache(r) ==
    [r EXCEPT !.tiledcached_primitives = EmptyMap,
              !.dirtycached_primitives = EmptyMap,
              !.inner.dirty_tiles = <<>>,
              !.inner.dirty_rects = <<>>]

set_caching(r, mode) ==
    IF r.inner.caching = mode THEN r
    ELSE clear_cache([r EXCEPT !.inner.caching = mode])

\* EguiSoftwareRender::caching
caching(r) == r.inner.caching

\* A renderer whose cached_size() always reads (0, 0).
cached_size_never_set(r) == <<0, 0>>

\* EguiSoftwareRender::cached_size
cached_size(r) == r.inner.cached_size

\* render_blendtiled after prepare_render_cache returned pr.
blendtiled_outcome(r, canvas, pr) ==
    [panic |-> pr.panic, cause |-> pr.cause,
     r |-> [r EXCEPT !.inner = pr.self, !.tiledcached_primitives = pr.cached],
     buffer |-> IF ~pr.panic /\ ~is_empty(pr.dirty_rect)
                THEN render_from_tiledcache(pr.self, pr.cached, canvas)
                ELSE canvas,
     ret |-> pr.dirty_rect]

render_blendtiled(r, canvas, redraw_everything_this_frame, paint_jobs, textures_delta, pixels_per_point) ==
    blendtiled_outcome(r, canvas,
        prepare_render_cache(r.inner, r.tiledcached_primitives, canvas,
                             redraw_everything_this_frame, paint_jobs,
                             textures_delta, pixels_per_point, TRUE))

\* render_meshmaybetiled after prepare_render_cache returned pr.
meshmaybetiled_outcome(r, canvas, pr) ==
    [panic |-> pr.panic, cause |-> pr.cause,
     r |-> [r EXCEPT !.inner = pr.self, !.dirtycached_primitives = pr.cached],
     buffer |-> IF ~pr.panic /\ ~is_empty(pr.dirty_rect)
                THEN render_from_meshcache(pr.self, pr.cached, canvas, pr.dirty_rect)
                ELSE canvas,
     ret |-> pr.dirty_rect]

render_meshmaybetiled(r, canvas, redraw_everything_this_frame, paint_jobs, textures_delta, pixels_per_point) ==
    meshmaybetiled_outcome(r, canvas,
        prepare_render_cache(r.inner, r.dirtycached_primitives, canvas,
                             redraw_everything_this_frame, paint_jobs,
                             textures_delta, pixels_per_point, FALSE))

\* The Direct arm of render after render_direct returned d: the whole buffer
\* is reported.
direct_outcome(r, buffer_ref, d) ==
    [panic |-> FALSE, cause |-> "",
     r |-> [r EXCEPT !.inner = d.self],
     buffer |-> d.buffer,
     ret |-> FullRect(buffer_ref.width, buffer_ref.height)]

\* EguiSoftwareRender::render: [panic, cause, r, buffer, ret]
render(r, buffer_ref, redraw_everything_this_frame, paint_jobs, textures_delta, pixels_per_point) ==
    IF r.inner.caching = "Direct"
    THEN direct_outcome(r, buffer_ref,
                        render_direct(r.inner, buffer_ref, paint_jobs, textures_delta,
                                      pixels_per_point))
    ELSE IF r.inner.caching \in {"MeshTiled", "Mesh"}
    THEN render_meshmaybetiled(r, buffer_ref, redraw_everything_this_frame, paint_jobs,
                               textures_delta, pixels_per_point)
    ELSE render_blendtiled(r, buffer_ref, redraw_everything_this_frame, paint_jobs,
                           textures_delta, pixels_per_point)

\* EguiSoftwareRender::new, then with_caching(mode)
NewRenderer(mode) ==
    [tiledcached_primitives |-> EmptyMap,
     dirtycached_primitives |-> EmptyMap,
     inner |-> [cached_size |-> <<0, 0>>,
                textures |-> NoTextures,
                tiles_dim |-> <<0, 0>>,
                dirty_tiles |-> <<>>,
                dirty_rects |-> <<>>,
                convert_tris_to_rects |-> TRUE,
                allow_raster_opt |-> TRUE,
                caching |-> mode]]

with_convert_tris_to_rects(r, set) == [r EXCEPT !.inner.convert_tris_to_rects = set]

with_allow_raster_opt(r, set) == [r EXCEPT !.inner.allow_raster_opt = set]

(***************************************************************************)
(* EguiSoftwareRenderCanvas                                                *)
(***************************************************************************)
RECURSIVE BlendTimes(_, _, _)
BlendTimes(src, dst, n) ==
    IF n = 0 THEN dst ELSE BlendTimes(src, egui_blend_u8(src, dst), n - 1)

\* A row y of blit_rect whose span ends past the data: the slice panics.
BlitRowFails(buf, rect, y) ==
    rect.min_x > rect.max_x \/ y * buf.width + rect.max_x > buf.width * buf.height

\* blit_rect (canvas_row_offset = 0): rows are blended in ascending order up
\* to the first whose span is out of range (the rows after it fail as well); a
\* span longer than a row runs on into the following rows.  [panic, buffer]
blit_rect(canvas, buffer, rect) ==
    LET rows == {y \in rect.min_y..(rect.max_y - 1) : ~BlitRowFails(buffer, rect, y)}
        Times(p) == Cardinality({y \in rows :
                        LET idx == p[1] + p[2] * buffer.width
                        IN  /\ y * buffer.width + rect.min_x <= idx
                            /\ idx < y * buffer.width + rect.max_x})
    IN  [panic  |-> \E y \in rect.min_y..(rect.max_y - 1) : BlitRowFails(buffer, rect, y),
         buffer |-> [buffer EXCEPT !.data =
                        [p \in DOMAIN buffer.data |->
                            BlendTimes(canvas.data[p], buffer.data[p], Times(p))]]]

RECURSIVE BlitTiles(_, _, _, _)
BlitTiles(self, canvas, out, k) ==
    IF k > Len(self.dirty_tiles) \/ out.panic THEN out
    ELSE IF (self.dirty_tiles[k] \div OCCUPIED_TILE_MASK) % 2 = 0
    THEN BlitTiles(self, canvas, out, k + 1)
    ELSE
    LET tile_x  == (k - 1) % self.tiles_dim[1]
        tile_y  == (k - 1) \div self.tiles_dim[1]
        x_start == tile_x * TILE_SIZE
        y_start == tile_y * TILE_SIZE
        x_end   == Min(x_start + TILE_SIZE, canvas.width)
        y_end   == Min(y_start + TILE_SIZE, canvas.height)
    IN  BlitTiles(self, canvas,
                  blit_rect(canvas, out.buffer, Rect(x_start, y_start, x_end, y_end)),
                  k + 1)

\* blit_to_buffer_from_tiledcanvas (without rayon): [panic, buffer]
blit_to_buffer_from_tiledcanvas(self, canvas, buffer) ==
    IF canvas.width * canvas.height = 0 THEN [panic |-> FALSE, buffer |-> buffer]
    ELSE BlitTiles(self, canvas, [panic |-> FALSE, buffer |-> buffer], 1)

\* A wrapper that never asks for a full redraw.
CanvasRedrawNever(size, w, h) == FALSE

\* Whether EguiSoftwareRenderCanvas::render asks for a full redraw.
CanvasRedraw(size, w, h) == size # <<w, h>>

\* The Direct arm of EguiSoftwareRenderCanvas::render after the inner render
\* returned o: the canvas is left alone.
canvas_direct(canvas, o) ==
    [panic |-> o.panic, cause |-> o.cause, r |-> o.r, canvas |-> canvas,
     buffer |-> o.buffer, ret |-> o.ret, redraw |-> TRUE]

\* The caching arm after the inner render returned o: blit the canvas to
\* buffer_ref, by tiles in BlendTiled mode, else the returned rect.
canvas_blit(buffer_ref, redraw, o) ==
    LET b == IF o.panic THEN [panic |-> TRUE, buffer |-> buffer_ref]
             ELSE IF o.r.inner.caching = "BlendTiled"
             THEN blit_to_buffer_from_tiledcanvas(o.r.inner, o.buffer, buffer_ref)
             ELSE blit_rect(o.buffer, buffer_ref, o.ret)
    IN  [panic |-> b.panic,
         cause |-> IF o.panic THEN o.cause
                   ELSE IF b.panic THEN "range end index out of range" ELSE "",
         r |-> o.r, canvas |-> o.buffer, buffer |-> b.buffer, ret |-> o.ret,
         redraw |-> redraw]

\* EguiSoftwareRenderCanvas::render: [panic, cause, r, canvas, buffer, ret,
\* redraw]; canvas is the Vec the wrapper owns, seen as the buffer it was
\* last resized for.
canvas_render(r, canvas, buffer_ref, paint_jobs, textures_delta, pixels_per_point) ==
    IF r.inner.caching = "Direct"
    THEN canvas_direct(canvas, render(r, buffer_ref, TRUE, paint_jobs, textures_delta,
                                      pixels_per_point))
    ELSE
    LET redraw == CanvasRedraw(r.inner.cached_size, buffer_ref.width, buffer_ref.height)
        vec    == IF redraw THEN ZeroBuffer(buffer_ref.width, buffer_ref.height) ELSE canvas
        fail(cause) == [panic |-> TRUE, cause |-> cause, r |-> r, canvas |-> vec,
                        buffer |-> buffer_ref, ret |-> new_empty, redraw |-> redraw]
    IN  IF ~(buffer_ref.width > 0) THEN fail("width > 0")
        ELSE IF ~(buffer_ref.height > 0) THEN fail("height > 0")
        ELSE IF <<vec.width, vec.height>> # <<buffer_ref.width, buffer_ref.height>>
        THEN fail("canvas length")
        ELSE canvas_blit(buffer_ref, redraw,
                         render(r, vec, redraw, paint_jobs, textures_delta,
                                pixels_per_point))

(***************************************************************************)
(* Inputs: what the caller hands to render.                                *)
(***************************************************************************)
\* The uv of egui's white pixel.
WHITE_UV == <<0, 0>>

\* An egui::Mesh of one axis-aligned quad (two triangles), in points.
Quad(x0, x1, y0, y1, color) ==
    [texture_id |-> Tex0,
     vertices   |-> << [pos |-> <<x0, y0>>, uv |-> WHITE_UV, color |-> color],
                       [pos |-> <<x1, y0>>, uv |-> WHITE_UV, color |-> color],
                       [pos |-> <<x1, y1>>, uv |-> WHITE_UV, color |-> color],
                       [pos |-> <<x0, y1>>, uv |-> WHITE_UV, color |-> color] >>,
     indices    |-> <<0, 1, 2, 0, 2, 3>>]

\* An egui::ClippedPrimitive holding a mesh.
MeshJob(clip_min, clip_max, mesh) ==
    [clip_rect |-> [min |-> clip_min, max |-> clip_max],
     primitive |-> [kind |-> "Mesh", mesh |-> mesh]]

\* Premultiplied colours.
Red == <<128, 0, 0, 128>>

Green == <<0, 128, 0, 128>>

Blue == <<0, 0, 255, 255>>

\* Translucent quads in the first tile column, an opaque one in the second.
JobA == MeshJob(<<0, 0>>, <<128, 64>>, Quad(0, 32, 0, 64, Red))

JobB == MeshJob(<<0, 0>>, <<128, 64>>, Quad(32, 64, 0, 64, Green))

JobC == MeshJob(<<0, 0>>, <<128, 64>>, Quad(64, 128, 0, 64, Blue))

Frames == { <<>>, <<JobA>>, <<JobB>>, <<JobC>>, <<JobB, JobA>>, <<JobA, JobA>> }

\* The delta that uploads the whole of texture 0, all white.
SetWhite == [set |-> << [id |-> Tex0, patch |-> FALSE, color |-> White] >>, free |-> {}]

Deltas == {NoDelta, SetWhite}

Sizes == { <<128, 64>>, <<64, 64>> }

RenderInput(size, full_redraw, paint_jobs, textures_delta, pixels_per_point) ==
    [size |-> size, full_redraw |-> full_redraw, paint_jobs |-> paint_jobs,
     textures_delta |-> textures_delta, pixels_per_point |-> pixels_per_point]

\* Calls inside the documented contract of render, as far as the arguments go.
ValidInputs ==
    {RenderInput(sz, fr, f, d, 1) : sz \in Sizes, fr \in BOOLEAN, f \in Frames, d \in Deltas}

\* Calls with a zero width, a zero height or a zero pixels_per_point.
InvalidInputs ==
    { RenderInput(<<0, 64>>, TRUE, <<JobA>>, SetWhite, 1),
      RenderInput(<<128, 0>>, TRUE, <<JobA>>, SetWhite, 1),
      RenderInput(<<128, 64>>, TRUE, <<JobA>>, SetWhite, 0) }

RenderInputs == ValidInputs \cup InvalidInputs

\* An egui::ClippedPrimitive holding a paint callback.
JobCallback ==
    [clip_rect |-> [min |-> <<0, 0>>, max |-> <<128, 64>>],
     primitive |-> [kind |-> "Callback"]]

\* Meshes the renderer has nothing to draw for.
JobNoVertices ==
    MeshJob(<<0, 0>>, <<128, 64>>,
            [texture_id |-> Tex0, vertices |-> <<>>, indices |-> <<0, 1, 2>>])

JobNoIndices ==
    MeshJob(<<0, 0>>, <<128, 64>>, [Quad(0, 32, 0, 64, Red) EXCEPT !.indices = <<>>])

\* A quad over the first tile whose texture is never uploaded.
JobMissing ==
    MeshJob(<<0, 0>>, <<128, 64>>, [Quad(0, 64, 0, 64, Green) EXCEPT !.texture_id = Tex1])

SkipFrames ==
    { <<>>, <<JobA>>, <<JobCallback>>, <<JobNoVertices>>, <<JobNoIndices>>,
      <<JobCallback, JobA>>, <<JobA, JobNoIndices>>,
      <<JobMissing>>, <<JobMissing, JobA>>, <<JobA, JobMissing>> }

SkipInputs ==
    {RenderInput(<<128, 64>>, fr, f, d, 1) : fr \in BOOLEAN, f \in SkipFrames, d \in Deltas}

(***************************************************************************)
(* update_canvas_tile and blit_rect on the chunk of one row of tiles       *)
(***************************************************************************)
\* The chunk par_chunks_mut(width * TILE_SIZE) hands to the unit of tile_row,
\* wrapped in a BufferMutRef of its own: row 0 of the chunk is row
\* tile_row * TILE_SIZE of buf, and the last chunk may be lower than a tile.
Chunk(buf, tile_row) ==
    LET off == tile_row * TILE_SIZE
        h == Min(TILE_SIZE, buf.height - off)
    IN  Buffer(buf.width, h, [q \in Pix(buf.width, h) |-> buf.data[<<q[1], q[2] + off>>]])

\* buf with the rows of tile_row as the unit left its chunk.
WithChunk(buf, tile_row, chunk) ==
    [buf EXCEPT !.data =
        [p \in DOMAIN buf.data |->
            IF p[2] \div TILE_SIZE = tile_row
            THEN chunk.data[<<p[1], p[2] - tile_row * TILE_SIZE>>]
            ELSE buf.data[p]]]

\* The value of pixel q of the chunk `canvas` after the cached bitmaps
\* sorted_prim_cache[k..] were blended over px by update_canvas_tile called
\* with canvas_row_offset.
RECURSIVE BlendPrimsRow(_, _, _, _, _, _, _, _, _)
BlendPrimsRow(sorted_prim_cache, k, canvas, tile_x, tile_y, full_height, canvas_row_offset, q, px) ==
    IF k > Len(sorted_prim_cache) THEN px
    ELSE
    LET prim == sorted_prim_cache[k]
        r == prim.inner.rect
        tile_x_start == tile_x * TILE_SIZE
        tile_y_start == tile_y * TILE_SIZE
        tile_x_end == Min(tile_x_start + TILE_SIZE, canvas.width)
        tile_y_end == Min(tile_y_start + TILE_SIZE, full_height)
        min_x == Min(Max(r.min_x, tile_x_start), canvas.width)
        min_y == Min(Max(r.min_y, tile_y_start), canvas.height + canvas_row_offset)
        max_x == Min(Min(r.max_x, tile_x_end), canvas.width)
        max_y == Min(Min(r.max_y, tile_y_end), canvas.height + canvas_row_offset)
        prim_x_min == Min(min_x - r.min_x, width(r))
        \* the rows y of min_y..max_y whose canvas row is q's
        ys == {y \in min_y..(max_y - 1) : Min(y - canvas_row_offset, canvas.height) = q[2]}
        hit == /\ InSeq(<<tile_x, tile_y>>, prim.occupied_tiles)
               /\ ~(max_x <= min_x \/ max_y <= min_y)
               /\ min_x <= q[1] /\ q[1] < max_x
               /\ ys # {}
    IN  BlendPrimsRow(sorted_prim_cache, k + 1, canvas, tile_x, tile_y, full_height,
                      canvas_row_offset, q,
                      IF hit
                      THEN egui_blend_u8(
                               prim.buffer[<<prim_x_min + (q[1] - min_x),
                                             Min(SetMin(ys) - r.min_y, height(r))>>], px)
                      ELSE px)

\* The pixels of the chunk `canvas` that update_canvas_tile called with
\* canvas_row_offset clears.
ClearedByTile(canvas, tile_x, tile_y, full_height, canvas_row_offset) ==
    LET tile_x_start == tile_x * TILE_SIZE
        tile_y_start == tile_y * TILE_SIZE
        tile_x_end == Min(tile_x_start + TILE_SIZE, canvas.width)
        tile_y_end == Min(tile_y_start + TILE_SIZE, full_height)
    IN  { q \in DOMAIN canvas.data :
            /\ tile_x_start <= q[1] /\ q[1] < tile_x_end
            /\ tile_y_start - canvas_row_offset <= q[2]
            /\ q[2] < tile_y_end - canvas_row_offset }

\* update_canvas_tile on the chunk of a tile row.
update_canvas_tile_row(sorted_prim_cache, canvas, tile_x, tile_y, full_height, canvas_row_offset) ==
    [canvas EXCEPT !.data =
        [q \in DOMAIN canvas.data |->
            IF q \in ClearedByTile(canvas, tile_x, tile_y, full_height, canvas_row_offset)
            THEN BlendPrimsRow(sorted_prim_cache, 1, canvas, tile_x, tile_y, full_height,
                               canvas_row_offset, q, ZeroPx)
            ELSE canvas.data[q]]]

\* The tiles the compositing unit of tile_row updates, in order: the flags
\* from dirty_tile_row_start on, dirty_tile_row_end of them at most, that are
\* DIRTY and lie in the unit's row.
CompositeRowTiles(self, tile_row) ==
    LET dirty_tile_row_start == tile_row * self.tiles_dim[1]
        dirty_tile_row_end == dirty_tile_row_start + self.tiles_dim[1]
    IN  SortedSeq({ idx \in 0..(Len(self.dirty_tiles) - 1) :
                      /\ idx >= dirty_tile_row_start
                      /\ idx < dirty_tile_row_start + dirty_tile_row_end
                      /\ self.dirty_tiles[idx + 1] % 2 = DIRTY_TILE_MASK
                      /\ idx \div self.tiles_dim[1] = tile_row })

\* The tiles the blitting unit of tile_row blits, in order: the OCCUPIED ones
\* of its row.
BlitRowTiles(self, tile_row) ==
    SortedSeq({ idx \in 0..(Len(self.dirty_tiles) - 1) :
                  /\ (self.dirty_tiles[idx + 1] \div OCCUPIED_TILE_MASK) % 2 = 1
                  /\ idx \div self.tiles_dim[1] = tile_row })

\* A blit that reads the canvas at the row of the chunk, without the offset.
blit_rect_row_no_offset(canvas, buffer, rect, canvas_row_offset) ==
    [buffer EXCEPT !.data =
        [q \in DOMAIN buffer.data |->
            IF /\ rect.min_x <= q[1] /\ q[1] < rect.max_x
               /\ rect.min_y <= q[2] /\ q[2] < rect.max_y
            THEN egui_blend_u8(canvas.data[q], buffer.data[q])
            ELSE buffer.data[q]]]

\* blit_rect(canvas, buffer_tile_row, rect, canvas_row_offset): row y of the
\* chunk takes row y + canvas_row_offset of the canvas.
blit_rect_row(canvas, buffer, rect, canvas_row_offset) ==
    [buffer EXCEPT !.data =
        [q \in DOMAIN buffer.data |->
            IF /\ rect.min_x <= q[1] /\ q[1] < rect.max_x
               /\ rect.min_y <= q[2] /\ q[2] < rect.max_y
            THEN egui_blend_u8(canvas.data[<<q[1], q[2] + canvas_row_offset>>],
                               buffer.data[q])
            ELSE buffer.data[q]]]

\* The rect the blitting unit passes to blit_rect for tile_x.
BlitRowRect(buffer_tile_row, tile_x) ==
    Rect(tile_x * TILE_SIZE, 0,
         Min(tile_x * TILE_SIZE + TILE_SIZE, buffer_tile_row.width),
         Min(TILE_SIZE, buffer_tile_row.height))

\* The pixels of buf that lie in tile (tile_x, tile_row).
TilePixels(buf, tile_x, tile_row) ==
    { p \in DOMAIN buf.data :
        p[1] \div TILE_SIZE = tile_x /\ p[2] \div TILE_SIZE = tile_row }

(***************************************************************************)
(* State                                                                   *)
(***************************************************************************)
VARIABLES
    renderer,   \* the EguiSoftwareRender
    buffer,     \* the caller's buffer, as the last call left it
    canvas,     \* the Vec owned by an EguiSoftwareRenderCanvas
    before,     \* the buffer as it was handed to the last call
    call,       \* the last call: its arguments, the state it found, its outcome
    prev,       \* the call before the last
    hist,       \* sizes of earlier render calls
    nrender,    \* number of render calls made
    naux,       \* number of set_caching / clear_cache calls made
    boxes,      \* the rects a run hands to set_bboxes
    tiled_rects, \* a ComputeTiledDirtyRects used on its own
    query,      \* the last call on tiled_rects: its argument and what it yielded
    slices,     \* the slices of an egui_blend_u8_slice call, before and after
    shots,      \* one frame and the images two renderer configurations gave for it
    app,        \* the winit application: its state machine and the event loop's exit flag
    config,     \* a SoftwareBackendAppConfiguration and the last setter called on it
    units       \* the units of a parallel walk: tile rows, or the primitives of a frame

\* The variables of the components that are exercised on their own.
standalone_vars == <<boxes, tiled_rects, query, slices, shots, app, config, units>>

vars == <<renderer, buffer, canvas, before, call, prev, hist, nrender, naux, standalone_vars>>

\* ComputeTiledDirtyRects::default()
NoTiledRects == [minimal_non_overlapping_bboxes |-> <<>>, bboxes |-> <<>>]

NoQuery == [op |-> "none", other |-> new_empty, out |-> <<>>]

\* The components exercised on their own are not in use.
\* No slice has been handed to the blend kernel.
NoSlices == [src |-> <<>>, dst |-> <<>>, before |-> <<>>, done |-> FALSE]

\* No image was taken.
NoShot ==
    [taken |-> FALSE, caching |-> "", allow_raster_opt |-> TRUE,
     convert_tris_to_rects |-> TRUE, panic |-> FALSE,
     image |-> Buffer(0, 0, [p \in {} |-> ZeroPx])]

NoShots == [frame |-> <<>>, textures_delta |-> NoDelta, first |-> NoShot, last |-> NoShot]

\* Option::None, for an Option<SoftwareBackendAppError>.
NoError == [tag |-> "None"]

\* SoftwareBackendAppError::soft_buffer(function)
soft_buffer(function) == [tag |-> "SoftBuffer", function |-> function]

CreateWindowOs == [tag |-> "CreateWindowOs"]

\* No event was passed to handle_event.
NoEvent == [kind |-> "none", commands |-> <<>>, fails |-> "none"]

\* handle_event returned Ok(()) without asking for anything.
NoOutcome == [err |-> NoError, exit |-> FALSE, hide |-> FALSE]

\* run_app_with_software_backend has not returned.
NotReturned == [tag |-> "running"]

\* WinitAppStateMachine::new: the machine is Configured, the event loop is
\* not exiting and no callback has run.  `from` is the state the last
\* callback found and `path` the assignments it made to *self, in order, each
\* as [to, by, error]: the state assigned, the handler that assigned it and
\* whether it was assigned in an Err arm.
\* `dead` is the Option the Dead state holds; `event`, `handled` and `hides`
\* are the event the last callback passed to handle_event, what handle_event
\* returned and whether it hid the window; `failed` is the first error a
\* handle_event call returned; `result` is what
\* run_app_with_software_backend returned.
NewApp ==
    [state |-> "Configured", exiting |-> FALSE, callback |-> "new",
     from |-> "Configured", path |-> <<>>, ncallbacks |-> 0,
     dead |-> NoError, event |-> NoEvent, handled |-> NoOutcome, hides |-> FALSE,
     failed |-> NoError, result |-> NotReturned]

\* The fields of egui's ViewportBuilder that the model follows.
ViewportFields ==
    {"title", "visible", "has_shadow", "drag_and_drop", "taskbar", "close_button"}

\* SoftwareBackendAppConfiguration::new, with no setter called yet.  An
\* Option is "None" or "Some(v)".
NewConfiguration ==
    [viewport_builder |-> [f \in ViewportFields |-> "None"],
     allow_raster_opt |-> TRUE, convert_tris_to_rects |-> TRUE, caching |-> "BlendTiled",
     setter |-> "new", value |-> "None", nsetters |-> 0]

NoBuffer == Buffer(0, 0, [p \in {} |-> ZeroPx])

\* No parallel walk has been started.
NoUnits ==
    [phase |-> "none", self |-> NewRenderer("BlendTiled").inner, sorted |-> <<>>,
     canvas |-> NoBuffer, buffer |-> NoBuffer, canvas0 |-> NoBuffer, buffer0 |-> NoBuffer,
     done |-> <<>>, writers |-> <<>>]

StandaloneIdle ==
    /\ boxes = <<>>
    /\ tiled_rects = NoTiledRects
    /\ query = NoQuery
    /\ slices = NoSlices
    /\ shots = NoShots
    /\ app = NewApp
    /\ config = NewConfiguration
    /\ units = NoUnits

NoCall ==
    [op |-> "none", caching |-> "", cached_size |-> <<0, 0>>, textures |-> NoTextures,
     input |-> RenderInput(<<0, 0>>, FALSE, <<>>, NoDelta, 1), mode |-> "",
     panic |-> FALSE, cause |-> "", ret |-> new_empty]

\* The record of a render call that found the renderer r.
RenderCall(op, r, in, full_redraw, o) ==
    [op |-> op, caching |-> r.inner.caching, cached_size |-> r.inner.cached_size,
     textures |-> r.inner.textures,
     input |-> [in EXCEPT !.full_redraw = full_redraw], mode |-> "",
     panic |-> o.panic, cause |-> o.cause, ret |-> o.ret]

AuxCall(op, r, mode) ==
    [NoCall EXCEPT !.op = op, !.caching = r.inner.caching,
                   !.cached_size = r.inner.cached_size, !.textures = r.inner.textures,
                   !.mode = mode]

\* hist after a render call with outcome o on a renderer in the given mode.
Recorded(h, mode, size, o) ==
    [last_render  |-> size,
     last_caching |-> IF mode \in CachingModes /\ ~o.panic THEN size
                      ELSE h.last_caching]

Init ==
    /\ renderer \in {NewRenderer(m) : m \in Modes}
    /\ buffer = NoBuffer
    /\ canvas = NoBuffer
    /\ before = NoBuffer
    /\ call = NoCall
    /\ prev = NoCall
    /\ hist = [last_render |-> <<0, 0>>, last_caching |-> <<0, 0>>]
    /\ nrender = 0
    /\ naux = 0
    /\ StandaloneIdle

\* The caller keeps its buffer between calls and allocates a zeroed one when
\* the size changes.
BufferFor(size) ==
    IF <<buffer.width, buffer.height>> = size THEN buffer
    ELSE ZeroBuffer(size[1], size[2])

\* renderer.render(buffer_ref, full_redraw, paint_jobs, textures_delta, ppp)
Render(in) ==
    /\ ~call.panic
    /\ nrender < MaxRenders
    /\ \E buf \in {BufferFor(in.size)} :
       \E o \in {render(renderer, buf, in.full_redraw, in.paint_jobs,
                         in.textures_delta, in.pixels_per_point)} :
           /\ renderer' = o.r
           /\ buffer' = o.buffer
           /\ before' = buf
           /\ call' = RenderCall("render", renderer, in, in.full_redraw, o)
           /\ hist' = Recorded(hist, renderer.inner.caching, in.size, o)
    /\ prev' = call
    /\ nrender' = nrender + 1
    /\ UNCHANGED <<canvas, naux, standalone_vars>>

\* canvas.render(buffer_ref, paint_jobs, textures_delta, ppp) on a zeroed
\* buffer_ref.
CanvasRender(in) ==
    /\ ~call.panic
    /\ nrender < MaxRenders
    /\ \E buf \in {ZeroBuffer(in.size[1], in.size[2])} :
       \E o \in {canvas_render(renderer, canvas, buf, in.paint_jobs,
                                in.textures_delta, in.pixels_per_point)} :
           /\ renderer' = o.r
           /\ buffer' = o.buffer
           /\ canvas' = o.canvas
           /\ before' = buf
           /\ call' = RenderCall("canvas_render", renderer, in, o.redraw, o)
           /\ hist' = Recorded(hist, renderer.inner.caching, in.size, o)
    /\ prev' = call
    /\ nrender' = nrender + 1
    /\ UNCHANGED <<naux, standalone_vars>>

SetCaching(mode) ==
    /\ ~call.panic
    /\ naux < MaxAux
    /\ renderer' = set_caching(renderer, mode)
    /\ call' = AuxCall("set_caching", renderer, mode)
    /\ prev' = call
    /\ before' = buffer
    /\ naux' = naux + 1
    /\ UNCHANGED <<buffer, canvas, hist, nrender, standalone_vars>>

ClearCache ==
    /\ ~call.panic
    /\ naux < MaxAux
    /\ renderer' = clear_cache(renderer)
    /\ call' = AuxCall("clear_cache", renderer, "")
    /\ prev' = call
    /\ before' = buffer
    /\ naux' = naux + 1
    /\ UNCHANGED <<buffer, canvas, hist, nrender, standalone_vars>>

Next ==
    \/ \E in \in RenderInputs : Render(in)
    \/ \E mode \in Modes : SetCaching(mode)
    \/ ClearCache

Spec == Init /\ [][Next]_vars

NextCanvas ==
    \/ \E in \in {i \in RenderInputs : i.full_redraw} : CanvasRender(in)
    \/ \E mode \in Modes : SetCaching(mode)
    \/ ClearCache

SpecCanvas == Init /\ [][NextCanvas]_vars

(***************************************************************************)
(* ComputeTiledDirtyRects on its own                                       *)
(***************************************************************************)
\* Largest number of rects handed to one set_bboxes call.
MaxBoxes == 3

\* Spans along one axis of a canvas three tiles long: inside one tile, across
\* a tile border, aligned and not aligned.
Spans == { <<0, 64>>, <<70, 120>>, <<130, 192>>, <<10, 70>> }

\* The rects of primitives: never empty.
Boxes == {Rect(sx[1], sy[1], sx[2], sy[2]) : sx \in Spans, sy \in Spans}

BoxSeqs == UNION {[1..n -> Boxes] : n \in 0..MaxBoxes}

\* Rects to ask intersections for.
Probes ==
    { Rect(0, 0, 64, 64), Rect(32, 32, 96, 96), Rect(64, 0, 128, 192),
      Rect(0, 128, 192, 192), Rect(130, 10, 192, 70), Rect(0, 0, 192, 192) }

\* The renderer is left as constructed while a component is exercised.
RendererIdle ==
    /\ renderer = NewRenderer("BlendTiled")
    /\ buffer = NoBuffer
    /\ canvas = NoBuffer
    /\ before = NoBuffer
    /\ call = NoCall
    /\ prev = NoCall
    /\ hist = [last_render |-> <<0, 0>>, last_caching |-> <<0, 0>>]
    /\ nrender = 0
    /\ naux = 0

renderer_vars == <<renderer, buffer, canvas, before, call, prev, hist, nrender, naux>>

InitDirtyRects ==
    /\ RendererIdle
    /\ boxes \in BoxSeqs
    /\ tiled_rects = NoTiledRects
    /\ query = NoQuery
    /\ slices = NoSlices
    /\ shots = NoShots
    /\ app = NewApp
    /\ config = NewConfiguration
    /\ units = NoUnits

\* dirty_rects.set_bboxes(boxes.into_iter())
SetBboxes ==
    /\ tiled_rects' = [minimal_non_overlapping_bboxes |-> set_bboxes(boxes),
                       bboxes |-> [k \in 1..Len(boxes) |-> tiled(boxes[k])]]
    /\ query' = [op |-> "set_bboxes", other |-> new_empty, out |-> <<>>]
    /\ UNCHANGED <<boxes, slices, shots, app, config, units, renderer_vars>>

\* dirty_rects.intersections(other).collect()
Intersections(other) ==
    /\ query' = [op |-> "intersections", other |-> other,
                 out |-> intersections(tiled_rects.minimal_non_overlapping_bboxes, other)]
    /\ UNCHANGED <<boxes, tiled_rects, slices, shots, app, config, units, renderer_vars>>

NextDirtyRects ==
    \/ SetBboxes
    \/ \E other \in Probes : Intersections(other)

SpecDirtyRects == InitDirtyRects /\ [][NextDirtyRects]_vars

(***************************************************************************)
(* The blend kernel on its own                                             *)
(***************************************************************************)
\* Longest slice handed to egui_blend_u8_slice.
MaxSlice == 10

\* A slice of n pixels, all of colour c0 but the one at index j, of colour c1.
OneOff(n, j, c0, c1) == [k \in 1..n |-> IF k = j THEN c1 ELSE c0]

SourcePixels == {ZeroPx, <<128, 0, 0, 128>>}

DestPixels == {ZeroPx, <<255, 255, 255, 255>>}

SlicePairs ==
    {[src |-> OneOff(n, j, s[1], s[2]), dst |-> OneOff(n, k, d[1], d[2])] :
        n \in 0..MaxSlice, j \in 1..MaxSlice, k \in 1..MaxSlice,
        s \in SourcePixels \X SourcePixels, d \in DestPixels \X DestPixels}

InitBlend ==
    /\ RendererIdle
    /\ boxes = <<>>
    /\ tiled_rects = NoTiledRects
    /\ query = NoQuery
    /\ shots = NoShots
    /\ app = NewApp
    /\ config = NewConfiguration
    /\ units = NoUnits
    /\ \E sp \in SlicePairs :
        slices = [src |-> sp.src, dst |-> sp.dst, before |-> sp.dst, done |-> FALSE]

\* egui_blend_u8_slice(&src, &mut dst)
BlendSlice ==
    /\ ~slices.done
    /\ slices' = [slices EXCEPT !.dst = egui_blend_u8_slice(slices.src, slices.dst),
                                !.done = TRUE]
    /\ UNCHANGED <<boxes, tiled_rects, query, shots, app, config, units, renderer_vars>>

NextBlend == BlendSlice

SpecBlend == InitBlend /\ [][NextBlend]_vars

(***************************************************************************)
(* Frames whose primitives leave a part of their bounding box blank.       *)
(***************************************************************************)
\* A mesh of two quads side by side: an opaque one right of the tile border
\* at x = 64 and a fully transparent one left of it (a faded-out edge).
FadeMesh ==
    [texture_id |-> Tex0,
     vertices   |-> << [pos |-> <<64, 0>>,  uv |-> WHITE_UV, color |-> Blue],
                       [pos |-> <<96, 0>>,  uv |-> WHITE_UV, color |-> Blue],
                       [pos |-> <<96, 64>>, uv |-> WHITE_UV, color |-> Blue],
                       [pos |-> <<64, 64>>, uv |-> WHITE_UV, color |-> Blue],
                       [pos |-> <<32, 0>>,  uv |-> WHITE_UV, color |-> ZeroPx],
                       [pos |-> <<64, 0>>,  uv |-> WHITE_UV, color |-> ZeroPx],
                       [pos |-> <<64, 64>>, uv |-> WHITE_UV, color |-> ZeroPx],
                       [pos |-> <<32, 64>>, uv |-> WHITE_UV, color |-> ZeroPx] >>,
     indices    |-> <<0, 1, 2, 0, 2, 3, 4, 5, 6, 4, 6, 7>>]

JobFade == MeshJob(<<0, 0>>, <<128, 64>>, FadeMesh)

\* An opaque quad across the tile border.
JobAcross == MeshJob(<<0, 0>>, <<128, 64>>, Quad(32, 96, 0, 64, Blue))

TileFrames == { <<>>, <<JobA>>, <<JobB>>, <<JobC>>, <<JobAcross>>, <<JobFade>>, <<JobFade, JobA>> }

TileInputs ==
    {RenderInput(<<128, 64>>, fr, f, d, 1) : fr \in BOOLEAN, f \in TileFrames, d \in Deltas}

NextTiles ==
    \/ \E in \in TileInputs : Render(in)
    \/ \E mode \in Modes : SetCaching(mode)
    \/ ClearCache

SpecTiles == Init /\ [][NextTiles]_vars

(***************************************************************************)
(* The test renderer (test_render.rs) under every configuration            *)
(***************************************************************************)
OpaqueRed == <<255, 0, 0, 255>>

\* A mesh whose first two triangles have the same bounding box and no vertex
\* in common: the upper right half in one colour, the lower left half in
\* another; then a quad right of them.
TwoToneMesh ==
    [texture_id |-> Tex0,
     vertices   |-> << [pos |-> <<0, 0>>,    uv |-> WHITE_UV, color |-> Blue],
                       [pos |-> <<64, 0>>,   uv |-> WHITE_UV, color |-> Blue],
                       [pos |-> <<64, 64>>,  uv |-> WHITE_UV, color |-> Blue],
                       [pos |-> <<0, 0>>,    uv |-> WHITE_UV, color |-> OpaqueRed],
                       [pos |-> <<64, 64>>,  uv |-> WHITE_UV, color |-> OpaqueRed],
                       [pos |-> <<0, 64>>,   uv |-> WHITE_UV, color |-> OpaqueRed],
                       [pos |-> <<64, 0>>,   uv |-> WHITE_UV, color |-> Green],
                       [pos |-> <<128, 0>>,  uv |-> WHITE_UV, color |-> Green],
                       [pos |-> <<128, 64>>, uv |-> WHITE_UV, color |-> Green],
                       [pos |-> <<64, 64>>,  uv |-> WHITE_UV, color |-> Green] >>,
     indices    |-> <<0, 1, 2, 3, 4, 5, 6, 7, 8, 6, 8, 9>>]

JobTwoTone == MeshJob(<<0, 0>>, <<128, 64>>, TwoToneMesh)

TestFrames == { <<JobAcross, JobA>>, <<JobFade, JobA>>, <<JobTwoTone>> }

\* The size of the harness window, in pixels.
TestSize == <<128, 64>>

InitTestRender ==
    /\ RendererIdle
    /\ boxes = <<>>
    /\ tiled_rects = NoTiledRects
    /\ query = NoQuery
    /\ slices = NoSlices
    /\ app = NewApp
    /\ config = NewConfiguration
    /\ units = NoUnits
    /\ \E f \in TestFrames, d \in Deltas :
        shots = [NoShots EXCEPT !.frame = f, !.textures_delta = d]

\* EguiSoftwareRender::new with the three options set, then with_canvas.
TestRenderer(mode, allow_raster_opt, convert_tris_to_rects) ==
    with_convert_tris_to_rects(
        with_allow_raster_opt(NewRenderer(mode), allow_raster_opt),
        convert_tris_to_rects)

\* TestRenderer::handle_delta
handle_delta(r, delta) ==
    [r EXCEPT !.inner = free_textures(set_textures(r.inner, delta), delta)]

\* What a shot keeps of the outcome o of EguiSoftwareRenderCanvas::render.
Shot(r, o) ==
    [taken |-> TRUE, caching |-> r.inner.caching,
     allow_raster_opt |-> r.inner.allow_raster_opt,
     convert_tris_to_rects |-> r.inner.convert_tris_to_rects,
     panic |-> o.panic, image |-> o.buffer]

\* One pass of the test's loop body: a new renderer in the given
\* configuration is handed the textures, then TestRenderer::render draws the
\* frame into a zeroed buffer.
TestRender(mode, allow_raster_opt, convert_tris_to_rects) ==
    /\ \E r \in {handle_delta(TestRenderer(mode, allow_raster_opt, convert_tris_to_rects),
                              SetWhite)} :
       \E o \in {canvas_render(r, NoBuffer, ZeroBuffer(TestSize[1], TestSize[2]),
                                shots.frame, shots.textures_delta, 1)} :
           shots' = [shots EXCEPT !.first = IF shots.first.taken THEN @ ELSE Shot(r, o),
                                  !.last = Shot(r, o)]
    /\ UNCHANGED <<boxes, tiled_rects, query, slices, app, config, units, renderer_vars>>

NextTestRender ==
    \E mode \in Modes, allow_raster_opt \in BOOLEAN, convert_tris_to_rects \in BOOLEAN :
        TestRender(mode, allow_raster_opt, convert_tris_to_rects)

SpecTestRender == InitTestRender /\ [][NextTestRender]_vars

(***************************************************************************)
(* The winit application state machine (winit.rs)                          *)
(***************************************************************************)
\* Largest number of callbacks the event loop delivers in a run.
MaxCallbacks == 6

\* `*self = <state>` in the handler `by`; error tells the Err arms.  The
\* placeholder mem::take leaves in *self is overwritten in every arm and is
\* not recorded.
Assign(a, state, by, error) ==
    [a EXCEPT !.state = state,
              !.path = Append(@, [to |-> state, by |-> by, error |-> error])]

\* event_loop.exit()
Exit(a) == [a EXCEPT !.exiting = TRUE]

\* `*self = Self::Dead(Some(e)); event_loop.exit()` in the handler `by`.
Die(a, by, e) == [Exit(Assign(a, "Dead", by, TRUE)) EXCEPT !.dead = e]

\* A suspended that drops the window of a running application as well.
suspended_drops_window(a) ==
    IF a.exiting THEN a
    ELSE IF a.state = "Dead" THEN Exit(Assign(a, "Dead", "suspended", FALSE))
    ELSE IF a.state = "Running" THEN Assign(a, "Configured", "suspended", FALSE)
    ELSE Assign(a, a.state, "suspended", FALSE)

\* ApplicationHandler::suspended
suspended(a) ==
    IF a.exiting THEN a
    ELSE IF a.state = "Dead" THEN Exit(Assign(a, "Dead", "suspended", FALSE))
    ELSE IF a.state = "Running" THEN Assign(a, "WindowInitialized", "suspended", FALSE)
    ELSE Assign(a, a.state, "suspended", FALSE)

\* The WindowInitialized arm of resumed: create_surface succeeds or fails.
resume_window(a, surface_ok) ==
    IF a.exiting THEN a
    ELSE IF surface_ok THEN Assign(a, "Running", "resumed", FALSE)
    ELSE Die(a, "resumed", soft_buffer("softbuffer::Surface::new"))

\* ApplicationHandler::resumed; window_ok and surface_ok are the outcomes of
\* create_window and create_surface.  The Configured arm calls resumed again
\* and the Running arm calls suspended, then resumed; both land in the
\* WindowInitialized arm.
resumed(a, window_ok, surface_ok) ==
    IF a.exiting THEN a
    ELSE IF a.state = "Configured"
    THEN IF window_ok
         THEN resume_window(Assign(a, "WindowInitialized", "resumed", FALSE), surface_ok)
         ELSE Die(a, "resumed", CreateWindowOs)
    ELSE IF a.state = "WindowInitialized" THEN resume_window(a, surface_ok)
    ELSE IF a.state = "Running"
    THEN resume_window(suspended(Assign(a, "Running", "resumed", FALSE)), surface_ok)
    ELSE Exit(Assign(a, "Dead", "resumed", FALSE))

\* The viewport commands a frame may issue, as far as the loop over
\* r.commands tells them apart, and the command lists of the model.
ViewportCommands == {"Close", "CancelClose", "Title"}

CommandLists ==
    { <<>>, <<"Title">>, <<"Close">>, <<"CancelClose">>, <<"Close", "CancelClose">>,
      <<"CancelClose", "Close">>, <<"Close", "Title">> }

\* The calls of a redraw that can return an error, in the order they are made.
RedrawFailures ==
    {"softbuffer::Surface::resize", "softbuffer::Surface::buffer_mut",
     "softbuffer::Buffer::present"}

\* The window events of the model: a redraw with the commands its frame
\* issues and the call that fails in it (or "none"), a close request, and
\* any other event.
WindowEvents ==
    {[kind |-> "RedrawRequested", commands |-> cs, fails |-> f] :
        cs \in CommandLists, f \in RedrawFailures \cup {"none"}}
      \cup {[NoEvent EXCEPT !.kind = "CloseRequested"], [NoEvent EXCEPT !.kind = "Other"]}

\* `for command in &r.commands` from command k on: die is the flag, out says
\* whether the loop has hidden the window and asked the event loop to exit.
\* The check of die is the last statement of the loop's body.
RECURSIVE RunCommands(_, _, _, _)
RunCommands(commands, k, die, out) ==
    IF k > Len(commands) THEN out
    ELSE
    LET d == IF commands[k] = "Close" THEN TRUE
             ELSE IF commands[k] = "CancelClose" THEN FALSE
             ELSE die
    IN  RunCommands(commands, k + 1, d,
                    IF d THEN [NoOutcome EXCEPT !.exit = TRUE, !.hide = TRUE] ELSE out)

\* RunningEguiAppState::handle_event for a window event of the window, as far
\* as the machine sees it: [err, exit, hide].  resize is called before the
\* frame runs, buffer_mut and present after it.
handle_event(event) ==
    IF event.kind = "RedrawRequested"
    THEN IF event.fails = "softbuffer::Surface::resize"
         THEN [NoOutcome EXCEPT !.err = soft_buffer(event.fails)]
         ELSE [RunCommands(event.commands, 1, FALSE, NoOutcome) EXCEPT
                  !.err = IF event.fails = "none" THEN NoError ELSE soft_buffer(event.fails)]
    ELSE IF event.kind = "CloseRequested" THEN [NoOutcome EXCEPT !.exit = TRUE]
    ELSE NoOutcome

\* The Running arm of window_event and about_to_wait after handle_event
\* returned h for the event.
running_event(a, by, event, h) ==
    LET b == [IF h.exit THEN Exit(a) ELSE a EXCEPT
                 !.event = event, !.handled = h, !.hides = h.hide,
                 !.failed = IF a.failed = NoError THEN h.err ELSE a.failed]
    IN  IF h.err # NoError THEN Die(b, by, h.err) ELSE b

\* ApplicationHandler::window_event
window_event(a, event) ==
    IF a.exiting THEN a
    ELSE IF a.state \in {"Configured", "WindowInitialized"} THEN a
    ELSE IF a.state = "Running"
    THEN running_event(a, "window_event", event, handle_event(event))
    ELSE Exit(a)

\* ApplicationHandler::about_to_wait: handle_event returns Ok for
\* Event::AboutToWait.
about_to_wait(a) ==
    IF a.exiting THEN a
    ELSE IF a.state \in {"Configured", "WindowInitialized"} THEN a
    ELSE IF a.state = "Running"
    THEN running_event(a, "about_to_wait", [NoEvent EXCEPT !.kind = "AboutToWait"], NoOutcome)
    ELSE Exit(a)

\* ApplicationHandler::user_event: a repaint request never touches the machine.
user_event(a) == a

\* The machine as a callback finds it.
Entering(callback) ==
    [app EXCEPT !.callback = callback, !.from = app.state, !.path = <<>>,
                !.ncallbacks = @ + 1,
                !.event = NoEvent, !.handled = NoOutcome, !.hides = FALSE]

InitApp ==
    /\ RendererIdle
    /\ boxes = <<>>
    /\ tiled_rects = NoTiledRects
    /\ query = NoQuery
    /\ slices = NoSlices
    /\ shots = NoShots
    /\ app = NewApp
    /\ config = NewConfiguration
    /\ units = NoUnits

\* The event loop delivers one callback.
Deliver(out) ==
    /\ app.ncallbacks < MaxCallbacks
    /\ app.result = NotReturned
    /\ app' = out
    /\ UNCHANGED <<boxes, tiled_rects, query, slices, shots, config, units, renderer_vars>>

Resumed == \E window_ok \in BOOLEAN, surface_ok \in BOOLEAN :
    Deliver(resumed(Entering("resumed"), window_ok, surface_ok))

Suspended == Deliver(suspended(Entering("suspended")))

WindowEvent == \E event \in WindowEvents : Deliver(window_event(Entering("window_event"), event))

AboutToWait == Deliver(about_to_wait(Entering("about_to_wait")))

UserEvent == Deliver(user_event(Entering("user_event")))

\* An event loop that reports no error of its own.
run_app_never_fails(a, event_loop_error) ==
    IF a.state = "Dead" /\ a.dead # NoError
    THEN [tag |-> "Err", error |-> a.dead]
    ELSE [tag |-> "Ok"]

\* run_app_with_software_backend from the return of event_loop.run_app on;
\* event_loop_error says whether run_app returned Err.
run_app_with_software_backend(a, event_loop_error) ==
    IF event_loop_error
    THEN IF a.state = "Dead" /\ a.dead # NoError
         THEN [tag |-> "Err",
               error |-> [tag |-> "SuppressedEventLoop", suppressed |-> a.dead]]
         ELSE [tag |-> "Err", error |-> [tag |-> "EventLoop"]]
    ELSE IF a.state = "Dead" /\ a.dead # NoError
    THEN [tag |-> "Err", error |-> a.dead]
    ELSE [tag |-> "Ok"]

\* event_loop.run_app returns: with Ok once the loop was asked to exit, with
\* Err at any time.
RunAppReturns(event_loop_error) ==
    /\ app.result = NotReturned
    /\ app.exiting \/ event_loop_error
    /\ app' = [app EXCEPT !.result = run_app_with_software_backend(app, event_loop_error),
                          !.callback = IF event_loop_error THEN "run_app Err" ELSE "run_app Ok"]
    /\ UNCHANGED <<boxes, tiled_rects, query, slices, shots, config, units, renderer_vars>>

NextApp ==
    \/ Resumed \/ Suspended \/ WindowEvent \/ AboutToWait \/ UserEvent
    \/ \E event_loop_error \in BOOLEAN : RunAppReturns(event_loop_error)

SpecApp == InitApp /\ [][NextApp]_vars

(***************************************************************************)
(* SoftwareBackendAppConfiguration (winit.rs)                              *)
(***************************************************************************)
\* Largest number of setters chained on one configuration.
MaxSetters == 3

OptionValues == {"None", "Some(false)", "Some(true)"}

\* The field of viewport_builder the body of each convenience setter
\* assigns.
AssignedField(setter) ==
    CASE setter = "title"         -> "title"
      [] setter = "visible"       -> "visible"
      [] setter = "has_shadow"    -> "has_shadow"
      [] setter = "drag_and_drop" -> "has_shadow"
      [] setter = "taskbar"       -> "has_shadow"
      [] setter = "close_button"  -> "close_button"

\* A convenience setter of SoftwareBackendAppConfiguration called with value.
convenience_setter(self, setter, value) ==
    [self EXCEPT !.viewport_builder[AssignedField(setter)] = value]

InitConfiguration ==
    /\ RendererIdle
    /\ boxes = <<>>
    /\ tiled_rects = NoTiledRects
    /\ query = NoQuery
    /\ slices = NoSlices
    /\ shots = NoShots
    /\ app = NewApp
    /\ config = NewConfiguration
    /\ units = NoUnits

\* config = config.<setter>(value)
CallSetter(setter, value) ==
    /\ config.nsetters < MaxSetters
    /\ config' = [convenience_setter(config, setter, value) EXCEPT
                      !.setter = setter, !.value = value, !.nsetters = @ + 1]
    /\ UNCHANGED <<boxes, tiled_rects, query, slices, shots, app, units, renderer_vars>>

NextConfiguration == \E setter \in ViewportFields, value \in OptionValues : CallSetter(setter, value)

SpecConfiguration == InitConfiguration /\ [][NextConfiguration]_vars

(***************************************************************************)
(* Frames whose texture delta frees a texture.                             *)
(***************************************************************************)
FreeWhite == [set |-> <<>>, free |-> {Tex0}]

FreeFrames == { <<>>, <<JobA>>, <<JobA, JobB>>, <<JobC>> }

FreeInputs ==
    {RenderInput(<<128, 64>>, fr, f, d, 1) :
        fr \in BOOLEAN, f \in FreeFrames, d \in Deltas \cup {FreeWhite}}

NextFree ==
    \/ \E in \in FreeInputs : Render(in)
    \/ \E mode \in Modes : SetCaching(mode)
    \/ ClearCache

SpecFree == Init /\ [][NextFree]_vars

(***************************************************************************)
(* Frames that reuse cache entries: one mesh through different clip         *)
(* rectangles, and overlapping meshes whose order in the list changes.     *)
(***************************************************************************)
\* A quad over the whole buffer.
WideQuad == Quad(0, 128, 0, 64, Red)

\* The quad seen through a clip rectangle 32 points wide, at x = 0 and at
\* x = 32: the cropped size is the same.
JobClipL == MeshJob(<<0, 0>>, <<32, 64>>, WideQuad)

JobClipR == MeshJob(<<32, 0>>, <<64, 64>>, WideQuad)

\* A quad under or over JobA, in another colour.
JobOnA == MeshJob(<<0, 0>>, <<128, 64>>, Quad(0, 32, 0, 64, Green))

ReuseFrames ==
    { <<>>, <<JobClipL>>, <<JobClipR>>, <<JobA, JobOnA>>, <<JobOnA, JobA>>,
      <<JobOnA, JobA, JobB>> }

ReuseInputs ==
    {RenderInput(<<128, 64>>, fr, f, d, 1) : fr \in BOOLEAN, f \in ReuseFrames, d \in Deltas}

NextReuse ==
    \/ \E in \in ReuseInputs : Render(in)
    \/ \E mode \in Modes : SetCaching(mode)
    \/ ClearCache

SpecReuse == Init /\ [][NextReuse]_vars

(***************************************************************************)
(* Frames whose texture delta replaces or patches a texture in use.        *)
(***************************************************************************)
Dark == <<0, 0, 0, 255>>

\* Managed(0) is uploaded anew with dark pixels, or patched with them.
SetDark == [set |-> << [id |-> Tex0, patch |-> FALSE, color |-> Dark] >>, free |-> {}]

PatchDark == [set |-> << [id |-> Tex0, patch |-> TRUE, color |-> Dark] >>, free |-> {}]

TextureFrames == { <<>>, <<JobA>>, <<JobA, JobB>>, <<JobMissing, JobA>> }

TextureInputs ==
    {RenderInput(<<128, 64>>, fr, f, d, 1) :
        fr \in BOOLEAN, f \in TextureFrames, d \in {NoDelta, SetWhite, SetDark, PatchDark}}

NextTexture ==
    \/ \E in \in TextureInputs : Render(in)
    \/ \E mode \in Modes : SetCaching(mode)
    \/ ClearCache

SpecTexture == Init /\ [][NextTexture]_vars

\* Frames with primitives the renderer skips.
NextSkip ==
    \/ \E in \in SkipInputs : Render(in)
    \/ \E mode \in Modes : SetCaching(mode)
    \/ ClearCache

SpecSkip == Init /\ [][NextSkip]_vars

(***************************************************************************)
(* Rows of tiles composited and blitted by parallel units (feature rayon)  *)
(***************************************************************************)
\* A quad in the lower right tile and a translucent one across all four
\* tiles of a 128x96 canvas, whose lower row of tiles is 32 pixels high.
JobLow == MeshJob(<<0, 0>>, <<128, 96>>, Quad(64, 128, 64, 96, Blue))

JobTall == MeshJob(<<0, 0>>, <<128, 96>>, Quad(32, 96, 32, 96, Green))

RowFrames ==
    { <<>>, <<JobA>>, <<JobLow>>, <<JobTall>>, <<JobA, JobLow>>, <<JobTall, JobLow>> }

RowSize == <<128, 96>>

\* The caller's buffer holds a white background.
WhiteBuffer == Buffer(RowSize[1], RowSize[2], [p \in Pix(RowSize[1], RowSize[2]) |-> White])

\* The walk that starts when prepare_render_cache returned pr for a canvas:
\* render_blendtiled composites unless the dirty rect is empty, and the
\* canvas is blitted to the buffer afterwards.
StartUnits(pr, cv) ==
    [phase |-> IF is_empty(pr.dirty_rect) THEN "blit" ELSE "composite",
     self |-> pr.self, sorted |-> SortByZ(Values(pr.cached)),
     canvas |-> cv, buffer |-> WhiteBuffer, canvas0 |-> cv, buffer0 |-> WhiteBuffer,
     done |-> [tile_row \in 0..(pr.self.tiles_dim[2] - 1) |-> 0],
     writers |-> [p \in DOMAIN cv.data |-> {}]]

\* The second frame of a canvas of RowSize: the first frame was drawn with
\* full redraw, the second is prepared and about to be composited.
SecondFrame(first, second) ==
    LET o == render(NewRenderer("BlendTiled"), ZeroBuffer(RowSize[1], RowSize[2]), TRUE,
                    first, SetWhite, 1)
    IN  StartUnits(prepare_render_cache(o.r.inner, o.r.tiledcached_primitives, o.buffer,
                                        FALSE, second, NoDelta, 1, TRUE),
                   o.buffer)

InitRows ==
    /\ RendererIdle
    /\ boxes = <<>>
    /\ tiled_rects = NoTiledRects
    /\ query = NoQuery
    /\ slices = NoSlices
    /\ shots = NoShots
    /\ app = NewApp
    /\ config = NewConfiguration
    /\ units \in { SecondFrame(first, second) : first \in RowFrames, second \in RowFrames }

\* The unit of tile_row updates its next dirty tile.
CompositeUnit(tile_row) ==
    /\ units.phase = "composite"
    /\ units.done[tile_row] < Len(CompositeRowTiles(units.self, tile_row))
    /\ \E tile_idx \in {CompositeRowTiles(units.self, tile_row)[units.done[tile_row] + 1]} :
       \E chunk \in {update_canvas_tile_row(units.sorted, Chunk(units.canvas, tile_row),
                                             tile_idx % units.self.tiles_dim[1],
                                             tile_idx \div units.self.tiles_dim[1],
                                             units.canvas.height, tile_row * TILE_SIZE)} :
           units' = [units EXCEPT
                        !.canvas = WithChunk(@, tile_row, chunk),
                        !.done[tile_row] = @ + 1,
                        !.writers = [p \in DOMAIN @ |->
                            IF p \in TilePixels(units.canvas,
                                                tile_idx % units.self.tiles_dim[1], tile_row)
                            THEN @[p] \cup {tile_row} ELSE @[p]]]
    /\ UNCHANGED <<boxes, tiled_rects, query, slices, shots, app, config, renderer_vars>>

\* Every compositing unit has finished: the blit of the canvas begins.
StartBlit ==
    /\ units.phase = "composite"
    /\ \A tile_row \in DOMAIN units.done :
           units.done[tile_row] = Len(CompositeRowTiles(units.self, tile_row))
    /\ units' = [units EXCEPT !.phase = "blit",
                              !.done = [tile_row \in DOMAIN @ |-> 0],
                              !.writers = [p \in DOMAIN @ |-> {}]]
    /\ UNCHANGED <<boxes, tiled_rects, query, slices, shots, app, config, renderer_vars>>

\* The unit of tile_row blits its next occupied tile.
BlitUnit(tile_row) ==
    /\ units.phase = "blit"
    /\ units.done[tile_row] < Len(BlitRowTiles(units.self, tile_row))
    /\ \E tile_idx \in {BlitRowTiles(units.self, tile_row)[units.done[tile_row] + 1]} :
       \E chunk \in {Chunk(units.buffer, tile_row)} :
           units' = [units EXCEPT
                        !.buffer = WithChunk(@, tile_row,
                                       blit_rect_row(units.canvas, chunk,
                                           BlitRowRect(chunk, tile_idx % units.self.tiles_dim[1]),
                                           tile_row * TILE_SIZE)),
                        !.done[tile_row] = @ + 1,
                        !.writers = [p \in DOMAIN @ |->
                            IF p \in TilePixels(units.buffer,
                                                tile_idx % units.self.tiles_dim[1], tile_row)
                            THEN @[p] \cup {tile_row} ELSE @[p]]]
    /\ UNCHANGED <<boxes, tiled_rects, query, slices, shots, app, config, renderer_vars>>

NextRows ==
    \/ \E tile_row \in DOMAIN units.done : CompositeUnit(tile_row)
    \/ StartBlit
    \/ \E tile_row \in DOMAIN units.done : BlitUnit(tile_row)

SpecRows == InitRows /\ [][NextRows]_vars

(***************************************************************************)
(* Primitives prepared by parallel units (feature rayon)                   *)
(***************************************************************************)
PrimFrames ==
    { <<JobA>>, <<JobA, JobB>>, <<JobB, JobA>>, <<JobA, JobA>>, <<JobA, JobB, JobA>>,
      <<JobCallback, JobA, JobOnA>> }

PrimSize == <<128, 64>>

\* A unit that has not returned its CacheUpdate yet.
Pending == [tag |-> "Pending"]

\* The updates handed to the write-back in the order the units completed.
collect_as_completed(updates, completed) ==
    [i \in 1..Len(completed) |-> updates[completed[i]]]

\* iter.map(..).collect::<Vec<_>>() over the enumerated paint jobs: the Vec
\* holds the updates by input index, whatever order the units completed in.
collect(updates, completed) == updates

\* The map and self that render_prims_to_cache is called with in the second
\* frame, after a first frame was drawn with full redraw: c1 and s2 of
\* prepare_render_cache.
StartPrims(mode, first, second) ==
    LET o == render(NewRenderer(mode), ZeroBuffer(PrimSize[1], PrimSize[2]), TRUE,
                    first, SetWhite, 1)
        cached == IF mode = "BlendTiled" THEN o.r.tiledcached_primitives
                  ELSE o.r.dirtycached_primitives
        c1 == [h \in DOMAIN cached |-> [cached[h] EXCEPT !.inner.seen_this_frame = FALSE]]
    IN  [phase |-> "prepare", self |-> o.r.inner, self0 |-> o.r.inner,
         tiled_mode |-> (mode = "BlendTiled"),
         cached |-> c1, cached0 |-> c1, paint_jobs |-> second,
         updates |-> [k \in 1..Len(second) |-> Pending],
         completed |-> <<>>, collected |-> <<>>, applied |-> 0]

InitPrims ==
    /\ RendererIdle
    /\ boxes = <<>>
    /\ tiled_rects = NoTiledRects
    /\ query = NoQuery
    /\ slices = NoSlices
    /\ shots = NoShots
    /\ app = NewApp
    /\ config = NewConfiguration
    /\ units \in { StartPrims(mode, first, second) :
                      mode \in {"BlendTiled", "Mesh"},
                      first \in {<<>>, <<JobA>>, <<JobB, JobA>>}, second \in PrimFrames }

\* The unit of paint job k returns: the closure given to map calls
\* prim_prepare_update with shared references to self and to the cache map.
PrepareUnit(k) ==
    /\ units.phase = "prepare"
    /\ units.updates[k] = Pending
    /\ \E update \in {prim_prepare_update(units.self, DOMAIN units.cached, 1, k - 1,
                                           units.paint_jobs[k], units.tiled_mode)} :
           units' = [units EXCEPT !.updates[k] = update,
                                  !.completed = Append(@, k)]
    /\ UNCHANGED <<boxes, tiled_rects, query, slices, shots, app, config, renderer_vars>>

\* Every unit has returned: collect yields the Vec of updates.
Collect ==
    /\ units.phase = "prepare"
    /\ \A k \in DOMAIN units.updates : units.updates[k] # Pending
    /\ units' = [units EXCEPT !.phase = "apply",
                              !.collected = collect(units.updates, units.completed)]
    /\ UNCHANGED <<boxes, tiled_rects, query, slices, shots, app, config, renderer_vars>>

\* updates.into_iter().for_each: the calling thread applies the next update.
WriteBack ==
    /\ units.phase = "apply"
    /\ units.applied < Len(units.collected)
    /\ units' = [units EXCEPT
                    !.cached = ApplyUpdates(@, <<units.collected[units.applied + 1]>>, 1),
                    !.applied = @ + 1]
    /\ UNCHANGED <<boxes, tiled_rects, query, slices, shots, app, config, renderer_vars>>

NextPrims ==
    \/ \E k \in DOMAIN units.updates : PrepareUnit(k)
    \/ Collect
    \/ WriteBack

SpecPrims == InitPrims /\ [][NextPrims]_vars

(***************************************************************************)
(* Properties                                                              *)
(***************************************************************************)
\* The last call was render (through the plain renderer), in a caching mode.
CachingRender == call.op = "render" /\ call.caching \in CachingModes

\* The last two calls were render calls, one right after the other, with the
\* same buffer size, primitives and scale, the second one without full
\* redraw and with an empty textures delta.
RepeatedFrame ==
    /\ CachingRender
    /\ prev.op = "render"
    /\ call.input.size = prev.input.size
    /\ call.input.paint_jobs = prev.input.paint_jobs
    /\ call.input.pixels_per_point = prev.input.pixels_per_point
    /\ ~call.input.full_redraw
    /\ call.input.textures_delta = NoDelta

\* C1: in each caching mode, the second of two consecutive render calls with
\* the same buffer size, primitives and textures and full_redraw = false
\* returns an empty DirtyRect and changes no pixel of its buffer.
C1_RepeatedFrameIsNoop ==
    RepeatedFrame => /\ ~call.panic
                     /\ is_empty(call.ret)
                     /\ buffer = before

\* A frame of two quads was rendered twice in a row and left its pixels on the
\* buffer.
C1_Witness ==
    /\ RepeatedFrame
    /\ call.input.paint_jobs = <<JobB, JobA>>
    /\ buffer.data[<<0, 0>>] = Red
    /\ is_empty(call.ret)

\* What Direct mode draws for the arguments of call c on a zeroed buffer, with
\* the texture store call c found.
DirectReference(c) ==
    render_direct([NewRenderer("Direct").inner EXCEPT !.textures = c.textures],
                  ZeroBuffer(c.input.size[1], c.input.size[2]),
                  c.input.paint_jobs, c.input.textures_delta,
                  c.input.pixels_per_point).buffer

\* The calls so far are BlendTiled frames at one buffer size: the first with
\* full redraw on a zeroed buffer, the later ones without.
BlendTiledSequence ==
    /\ call.op = "render" /\ call.caching = "BlendTiled" /\ ~call.panic
    /\ naux = 0
    /\ \/ nrender = 1 /\ call.input.full_redraw
       \/ /\ nrender = 2 /\ ~call.input.full_redraw
          /\ prev.input.full_redraw
          /\ prev.input.size = call.input.size

\* C2: after each frame of a BlendTiled sequence at a fixed size (full redraw
\* on a zeroed canvas first, no full redraw later) the canvas equals what
\* Direct mode draws for that frame on a zeroed buffer.
C2_BlendTiledEqualsDirect ==
    BlendTiledSequence => buffer = DirectReference(call)

\* Pixel p lies inside rect r.
Inside(p, r) ==
    /\ r.min_x <= p[1] /\ p[1] < r.max_x
    /\ r.min_y <= p[2] /\ p[2] < r.max_y

\* C3: in every caching mode each pixel a render call changed lies inside
\* the DirtyRect the call returned.
C3_ChangedPixelsInsideDirtyRect ==
    (CachingRender /\ ~call.panic) =>
        \A p \in DOMAIN buffer.data :
            buffer.data[p] # before.data[p] => Inside(p, call.ret)

\* C4: a render call in Direct mode, or with full_redraw = true, returns the
\* rect (0, 0, width, height), whatever the primitives.
C4_FullRectReturned ==
    (call.op = "render" /\ ~call.panic
        /\ (call.caching = "Direct" \/ call.input.full_redraw))
    => call.ret = FullRect(call.input.size[1], call.input.size[2])

\* A full redraw of an empty frame in a caching mode returned the full rect.
C4_Witness ==
    /\ CachingRender /\ ~call.panic
    /\ call.input.full_redraw
    /\ call.input.paint_jobs = <<>>
    /\ call.ret = FullRect(128, 64)

\* The arguments of call c break the documented contract of render.
BadArguments(c) ==
    \/ c.input.size[1] = 0
    \/ c.input.size[2] = 0
    \/ ~(c.input.pixels_per_point > 0)

\* C5: render panics, in every mode, when the buffer width or height is 0 or
\* pixels_per_point is not greater than 0.
C5_BadArgumentsPanic ==
    (call.op = "render" /\ BadArguments(call)) => call.panic

\* The step is a render call without full redraw on a buffer whose size is
\* not the cached size.
SizeMismatchStep ==
    /\ nrender' = nrender + 1
    /\ call'.op = "render"
    /\ ~call'.input.full_redraw
    /\ call'.input.size # cached_size(renderer)

\* C6: a render call with full_redraw = false on a buffer whose size differs
\* from cached_size() panics and leaves the cache maps, the tile flags and
\* the texture store as they were (the first call of a renderer included).
C6_SizeMismatchPanics ==
    [][SizeMismatchStep => (call'.panic /\ renderer' = renderer)]_vars

\* C7 as stated: cached_size() is the buffer size of the most recent render
\* call, (0, 0) before the first.
C7_CachedSizeIsLastRenderSize ==
    ~call.panic => cached_size(renderer) = hist.last_render

\* C7, amended: cached_size() is the buffer size of the most recent render
\* call that was made in a caching mode and returned, (0, 0) if there was
\* none; render calls in Direct mode, set_caching and clear_cache leave it.
C7_CachedSizeIsLastCachingRenderSize ==
    cached_size(renderer) = hist.last_caching

\* A Direct render at another size followed a render in a caching mode.
C7_Witness ==
    /\ call.op = "render" /\ call.caching = "Direct"
    /\ hist.last_caching = <<128, 64>>
    /\ hist.last_render = <<64, 64>>
    /\ cached_size(renderer) = <<128, 64>>

\* The step is a call of set_caching.
SetCachingStep == naux' = naux + 1 /\ call'.op = "set_caching"

\* C8: set_caching(m) with m not the current mode makes caching() = m and
\* leaves both cache maps, the tile flags and the dirty bboxes empty; with m
\* the current mode it changes nothing; the texture store and cached_size()
\* stay as they were in both cases.
C8_SetCachingEffect ==
    [][SetCachingStep =>
        /\ caching(renderer') = call'.mode
        /\ call'.mode # caching(renderer) =>
              /\ renderer'.tiledcached_primitives = EmptyMap
              /\ renderer'.dirtycached_primitives = EmptyMap
              /\ renderer'.inner.dirty_tiles = <<>>
              /\ renderer'.inner.dirty_rects = <<>>
        /\ call'.mode = caching(renderer) => renderer' = renderer
        /\ renderer'.inner.textures = renderer.inner.textures
        /\ cached_size(renderer') = cached_size(renderer)]_vars

\* set_caching switched the mode of a renderer that had just rendered a
\* frame of two quads in BlendTiled mode.
C8_Witness ==
    /\ call.op = "set_caching"
    /\ call.caching = "BlendTiled" /\ call.mode = "Mesh"
    /\ caching(renderer) = "Mesh"
    /\ prev.op = "render" /\ ~prev.panic
    /\ prev.input.paint_jobs = <<JobB, JobA>>
    /\ call.cached_size = <<128, 64>>
    /\ call.textures[Tex0].present

\* The last call is a render without full redraw at the cached size, right
\* after clear_cache or a set_caching that changed the mode.
RenderAfterClear ==
    /\ call.op = "render" /\ ~call.panic
    /\ ~call.input.full_redraw
    /\ call.input.size = call.cached_size
    /\ \/ prev.op = "clear_cache"
       \/ prev.op = "set_caching" /\ prev.mode # prev.caching

\* C9: the render call that follows clear_cache (or a mode change) redraws
\* everything even without full redraw: it returns the full rect, and a pixel
\* that no primitive of the frame draws is left blank.
C9_RenderAfterClearRedrawsAll ==
    RenderAfterClear =>
        /\ call.ret = FullRect(call.input.size[1], call.input.size[2])
        /\ \A p \in DOMAIN buffer.data :
               DirectReference(call).data[p] = ZeroPx => buffer.data[p] = ZeroPx

\* The last call was EguiSoftwareRenderCanvas::render in a caching mode.
CachingCanvasRender == call.op = "canvas_render" /\ call.caching \in CachingModes

\* The assertions that compare the buffer of the inner render call with what
\* the renderer and the wrapper hold.
SizeAssertions == {"cached_size == (width, height)", "canvas length"}

\* C10: in a caching mode EguiSoftwareRenderCanvas::render asks the inner
\* render for a full redraw exactly when the buffer size differs from
\* cached_size(), and then hands it a zeroed canvas of width*height pixels;
\* after every call the canvas holds width*height pixels, and the size
\* assertion of the inner render never fires.
C10_CanvasDetectsResize ==
    CachingCanvasRender =>
        /\ call.input.full_redraw = (call.input.size # call.cached_size)
        /\ canvas.width * canvas.height = call.input.size[1] * call.input.size[2]
        /\ call.cause \notin SizeAssertions
        /\ (~call.panic /\ call.input.full_redraw /\ call.input.paint_jobs = <<>>)
              => canvas = ZeroBuffer(call.input.size[1], call.input.size[2])
        /\ ~call.panic => cached_size(renderer) = <<canvas.width, canvas.height>>

\* The wrapper rendered at 128x64 and then, with primitives on its canvas, at
\* 64x64: the second call found the size changed and started from a zeroed
\* canvas.
C10_Witness ==
    /\ CachingCanvasRender /\ ~call.panic
    /\ prev.op = "canvas_render"
    /\ prev.input.size = <<128, 64>> /\ prev.input.paint_jobs = <<JobB, JobA>>
    /\ prev.input.textures_delta = SetWhite
    /\ call.input.size = <<64, 64>> /\ call.input.paint_jobs = <<JobA>>
    /\ call.input.full_redraw
    /\ canvas.data[<<0, 0>>] = Red /\ canvas.data[<<32, 0>>] = ZeroPx

\* A primitive prim_prepare_px_mesh returns None for.
Unsupported(job) ==
    \/ job.primitive.kind = "Callback"
    \/ Len(job.primitive.mesh.vertices) = 0
    \/ Len(job.primitive.mesh.indices) = 0

\* The frame without the primitives at the positions in drop.
Without(frame, drop) ==
    LET keep == SortedSeq({k \in 1..Len(frame) : ~(k \in drop)})
    IN  [i \in 1..Len(keep) |-> frame[keep[i]]]

\* The arguments of the call c are inside the documented contract of render:
\* a non-empty buffer, a positive scale and, in a caching mode, the size of
\* the cache unless a full redraw is asked for.
InContract(c) ==
    /\ c.input.size[1] > 0 /\ c.input.size[2] > 0 /\ c.input.pixels_per_point > 0
    /\ \/ c.caching = "Direct"
       \/ c.input.full_redraw
       \/ c.cached_size = c.input.size

\* The keys of the cache map of the mode r is in.
CacheKeys(r) ==
    IF r.inner.caching = "BlendTiled" THEN DOMAIN r.tiledcached_primitives
    ELSE DOMAIN r.dirtycached_primitives

\* This step is a render call, inside the contract, of a frame that has at
\* least one primitive and only primitives the renderer does not support.
SkippedFrameStep ==
    /\ nrender' = nrender + 1
    /\ InContract(call')
    /\ Len(call'.input.paint_jobs) > 0
    /\ \A k \in 1..Len(call'.input.paint_jobs) : Unsupported(call'.input.paint_jobs[k])

NoDirtyTile(r) ==
    \A k \in 1..Len(r.inner.dirty_tiles) : r.inner.dirty_tiles[k] % 2 = 0

\* This step is a render call inside the contract.
ContractStep == nrender' = nrender + 1 /\ InContract(call')

\* The positions of the unsupported primitives in the frame of the call c.
UnsupportedAt(c) ==
    {k \in 1..Len(c.input.paint_jobs) : Unsupported(c.input.paint_jobs[k])}

\* The outcome of the call this step makes had the unsupported primitives
\* not been in its frame.
SupportedOnly ==
    render(renderer, before', call'.input.full_redraw,
           Without(call'.input.paint_jobs, UnsupportedAt(call')),
           call'.input.textures_delta, call'.input.pixels_per_point)

StoreAtRaster == SetTexturesFrom(renderer.inner.textures, call'.input.textures_delta.set, 1)

\* The positions, in the frame of this step's call, of the meshes whose
\* texture id is not in that store.
MissingAt ==
    {k \in 1..Len(call'.input.paint_jobs) :
        /\ ~Unsupported(call'.input.paint_jobs[k])
        /\ ~StoreAtRaster[call'.input.paint_jobs[k].primitive.mesh.texture_id].present}

\* The outcome of the call this step makes had the meshes with a missing
\* texture not been in its frame.
TexturedOnly ==
    render(renderer, before', call'.input.full_redraw,
           Without(call'.input.paint_jobs, MissingAt),
           call'.input.textures_delta, call'.input.pixels_per_point)

\* C12: a mesh whose texture id is not in the texture store when it is
\* rasterised raises no error and writes no pixel, and the other primitives
\* of the frame are drawn as usual: the call does not panic and leaves the
\* buffer as the same call without that mesh would.
C12_MissingTextureDrawsNothing ==
    [][ContractStep /\ MissingAt # {} =>
            /\ ~call'.panic
            /\ buffer' = TexturedOnly.buffer]_vars

\* The rects the decomposition holds after set_bboxes.
Produced == tiled_rects.minimal_non_overlapping_bboxes

\* Two rects share a point of positive area.
Overlap(a, b) ==
    /\ Max(a.min_x, b.min_x) < Min(a.max_x, b.max_x)
    /\ Max(a.min_y, b.min_y) < Min(a.max_y, b.max_y)

\* C13: the rects produced by set_bboxes pairwise do not overlap.
C13_ProducedRectsAreDisjoint ==
    query.op = "set_bboxes" =>
        \A i, j \in 1..Len(Produced) : i # j => ~Overlap(Produced[i], Produced[j])

\* set_bboxes was given rects that overlap, and rects in several strips and
\* columns, and produced more than one rect.
C13_Witness ==
    /\ query.op = "set_bboxes"
    /\ \E i, j \in 1..Len(boxes) : i # j /\ Overlap(tiled(boxes[i]), tiled(boxes[j]))
    /\ \E i, j \in 1..Len(boxes) : ~Overlap(tiled(boxes[i]), tiled(boxes[j]))
    /\ Len(Produced) > 2

\* One coordinate inside every interval between two neighbouring values
\* among the coordinates of Spans and the multiples of 64 up to 192: rects
\* whose corners are such values agree as point sets when they agree here.
Grid == {0, 10, 64, 70, 120, 128, 130}

Covers(r, p) ==
    /\ r.min_x <= p[1] /\ p[1] < r.max_x
    /\ r.min_y <= p[2] /\ p[2] < r.max_y

\* The points of the union of a sequence of rects.
Area(rs) == {p \in Grid \X Grid : \E k \in 1..Len(rs) : Covers(rs[k], p)}

\* A rect snapped to the 64-pixel grid: min rounded down, max rounded up.
Snapped(r) ==
    LET Down(v) == v - (v % 64)
        Up(v) == IF v % 64 = 0 THEN v ELSE v - (v % 64) + 64
    IN  Rect(Down(r.min_x), Down(r.min_y), Up(r.max_x), Up(r.max_y))

\* C14: the union of the rects produced by set_bboxes is the union of the
\* inputs snapped to the tile grid, and no input gives no rect.
C14_ProducedUnionIsSnappedUnion ==
    query.op = "set_bboxes" =>
        /\ Area(Produced) = Area([k \in 1..Len(boxes) |-> Snapped(boxes[k])])
        /\ (Len(boxes) = 0 => Len(Produced) = 0)

\* set_bboxes was given rects that are not on the grid and produced several
\* rects, fewer points being covered by the inputs than by the result.
C14_Witness ==
    /\ query.op = "set_bboxes"
    /\ \E k \in 1..Len(boxes) : Snapped(boxes[k]) # boxes[k]
    /\ Len(Produced) > 1
    /\ Area(boxes) # Area(Produced)

\* The sequences that hold the elements of sq in another order.
Reorderings(sq) ==
    {[i \in 1..Len(sq) |-> sq[f[i]]] :
        f \in {g \in [1..Len(sq) -> 1..Len(sq)] :
                  \A i, j \in 1..Len(sq) : g[i] = g[j] => i = j}}

\* The sequences that hold one element of sq once more, at the end or at the
\* front.
Duplications(sq) ==
    {Append(sq, sq[k]) : k \in 1..Len(sq)} \cup {<<sq[k]>> \o sq : k \in 1..Len(sq)}

\* C15: set_bboxes produces the same list of rects for the input rects in
\* any order, and with any of them given twice.
C15_ProducedListIgnoresInputOrder ==
    query.op = "set_bboxes" =>
        \A other \in Reorderings(boxes) \cup Duplications(boxes) :
            set_bboxes(other) = Produced

\* set_bboxes was given, in descending order of their left edge, rects that
\* differ and cross a common strip.
C15_Witness ==
    /\ query.op = "set_bboxes"
    /\ Len(Produced) > 0
    /\ \E i, j \in 1..Len(boxes) :
        /\ i < j
        /\ boxes[i].min_x > boxes[j].min_x
        /\ tiled(boxes[i]).min_y < tiled(boxes[j]).max_y
        /\ tiled(boxes[j]).min_y < tiled(boxes[i]).max_y

\* The rects of the decomposition that overlap the rect other on both axes,
\* in the order of the list, each cut to other.
OverlappingCut(other) ==
    LET Hit(b) == Overlap(b, other)
        hits == SelectSeq(Produced, Hit)
    IN  [k \in 1..Len(hits) |->
            Rect(Max(hits[k].min_x, other.min_x), Max(hits[k].min_y, other.min_y),
                 Min(hits[k].max_x, other.max_x), Min(hits[k].max_y, other.max_y))]

\* C16: intersections(probe) yields exactly the rects of the decomposition
\* that overlap the probe on both axes, each cut to the probe; every rect it
\* yields has min_x < max_x and min_y < max_y and lies inside the probe.
C16_IntersectionsAreOverlapsCutToProbe ==
    query.op = "intersections" =>
        /\ query.out = OverlappingCut(query.other)
        /\ \A k \in 1..Len(query.out) :
            /\ query.out[k].min_x < query.out[k].max_x
            /\ query.out[k].min_y < query.out[k].max_y
            /\ query.other.min_x <= query.out[k].min_x
            /\ query.out[k].max_x <= query.other.max_x
            /\ query.other.min_y <= query.out[k].min_y
            /\ query.out[k].max_y <= query.other.max_y

\* The bitmap of the cache entry e has a pixel that is not zero at a canvas
\* position inside the slab of tile (tx, ty).
NonZeroInTile(e, tx, ty) ==
    \E p \in DOMAIN e.buffer :
        /\ e.buffer[p] # ZeroPx
        /\ tx * TILE_SIZE <= e.inner.rect.min_x + p[1]
        /\ e.inner.rect.min_x + p[1] < (tx + 1) * TILE_SIZE
        /\ ty * TILE_SIZE <= e.inner.rect.min_y + p[2]
        /\ e.inner.rect.min_y + p[2] < (ty + 1) * TILE_SIZE

\* C17: for every bitmap cache entry and every tile of the grid, the tile is
\* in the entry's occupied_tiles exactly if the bitmap has a pixel that is
\* not zero inside the tile's slab.
C17_OccupiedIffNonZeroPixelInTile ==
    \A h \in DOMAIN renderer.tiledcached_primitives :
        \A tx \in 0..(renderer.inner.tiles_dim[1] - 1) :
            \A ty \in 0..(renderer.inner.tiles_dim[2] - 1) :
                InSeq(<<tx, ty>>, renderer.tiledcached_primitives[h].occupied_tiles)
                    <=> NonZeroInTile(renderer.tiledcached_primitives[h], tx, ty)

\* The scalar reference blend of the pixel s over the pixel d: per channel
\* sat_add(s, (t + (t >> 8)) >> 8) with t = d * (255 - s.alpha) + 128.
ReferenceBlend(s, d) ==
    [c \in 1..4 |->
        LET t == d[c] * (255 - s[4]) + 128
        IN  Min(255, s[c] + ((t + (t \div 256)) \div 256))]

\* C18: after egui_blend_u8_slice every pixel of dst is the scalar reference
\* blend of the source pixel at the same index over the pixel dst held at
\* that index, for slices of any length.
C18_SliceBlendIsReferenceBlend ==
    slices.done =>
        \A i \in 1..Len(slices.dst) :
            slices.dst[i] = ReferenceBlend(slices.src[i], slices.before[i])

\* The colour a viewer sees: a pixel that is not opaque is laid over white.
OverWhite(px) == [c \in 1..3 |-> px[c] + (255 - px[4])]

\* The YIQ distance of two pixels, times 10^4 (coefficients times 100).
ColorDelta(p, q) ==
    LET a  == OverWhite(p)
        b  == OverWhite(q)
        dr == a[1] - b[1]
        dg == a[2] - b[2]
        db == a[3] - b[3]
        dy == 30 * dr + 59 * dg + 11 * db
        di == 60 * dr - 27 * dg - 32 * db
        dq == 21 * dr - 52 * dg + 31 * db
    IN  ((dy * dy) \div 100) * 51 + ((di * di) \div 100) * 30 + ((dq * dq) \div 100) * 20

\* The largest distance the comparison at threshold 0.6 lets pass:
\* 35215 * 0.6^2, times 10^4.
MaxDelta == 126774000

\* Two images are the same within the tolerance of the comparison.
SameImage(a, b) ==
    /\ a.width = b.width /\ a.height = b.height
    /\ \A p \in DOMAIN a.data : ColorDelta(a.data[p], b.data[p]) <= MaxDelta

\* C19: one frame rendered through the canvas variant into a zeroed buffer
\* gives the same image, within the tolerance of the comparison, in every
\* caching mode and under every combination of allow_raster_opt and
\* convert_tris_to_rects.
C19_SameImageInEveryConfiguration ==
    (shots.first.taken /\ shots.last.taken) =>
        /\ ~shots.first.panic /\ ~shots.last.panic
        /\ SameImage(shots.first.image, shots.last.image)

\* The changes of state the last callback made: the pairs <<s, e>> of a state
\* s and the assignment e that replaced it by another state.
Changes ==
    {c \in {<<IF k = 1 THEN app.from ELSE app.path[k - 1].to, app.path[k]>> :
                k \in 1..Len(app.path)} : c[1] # c[2].to}

\* The edges the state machine documents.
Documented(s, e) ==
    \/ s = "Configured" /\ e.to = "WindowInitialized" /\ e.by = "resumed"
    \/ s = "WindowInitialized" /\ e.to = "Running" /\ e.by = "resumed"
    \/ s = "WindowInitialized" /\ e.to = "Dead" /\ e.error
    \/ s = "Running" /\ e.to = "WindowInitialized" /\ e.by = "suspended"
    \/ s = "Running" /\ e.to = "Dead"

C21_SetterSetsItsOwnFieldOnly ==
    [][\A setter \in ViewportFields, value \in OptionValues :
          CallSetter(setter, value) =>
              /\ config'.viewport_builder[setter] = value
              /\ \A f \in ViewportFields \ {setter} :
                    config'.viewport_builder[f] = config.viewport_builder[f]
              /\ config'.allow_raster_opt = config.allow_raster_opt
              /\ config'.convert_tris_to_rects = config.convert_tris_to_rects
              /\ config'.caching = config.caching]_vars

\* The outcome of the call this step makes had the textures its delta sets
\* been in the store before the call and had the delta freed nothing.
TexturesAtHand ==
    render([renderer EXCEPT !.inner = set_textures(@, call'.input.textures_delta)],
           before', call'.input.full_redraw, call'.input.paint_jobs, NoDelta,
           call'.input.pixels_per_point)

\* C22: in every mode a render call draws with the textures its delta sets
\* and with the textures its delta frees: the pixels it leaves are those of
\* the same call with the set entries applied beforehand and no free entry.
C22_FreedTextureServesTheCall ==
    [][ContractStep =>
        /\ call'.panic = TexturesAtHand.panic
        /\ buffer' = TexturesAtHand.buffer]_vars

\* The outcome of the call this step makes on a renderer holding the same
\* textures but no cache entry and no tile flag, drawing into zeroed pixels.
FromCleared ==
    render(clear_cache(renderer), ZeroBuffer(before'.width, before'.height),
           call'.input.full_redraw, call'.input.paint_jobs,
           call'.input.textures_delta, call'.input.pixels_per_point)

\* The tiles of a flag array that carry a flag, each with its flags.
FlagsOf(dirty_tiles) ==
    { <<i, dirty_tiles[i]>> : i \in { j \in DOMAIN dirty_tiles : dirty_tiles[j] # 0 } }

\* C23: a render call in a caching mode with full_redraw = true leaves no
\* cache entry, no tile flag and no pixel of an earlier frame: the cache
\* maps, the tile flags and the pixels after the call are those the call
\* gives when it starts from an empty cache, no tile flags and zeroed pixels.
C23_FullRedrawForgetsEarlierFrames ==
    [][(ContractStep /\ call'.caching \in CachingModes /\ call'.input.full_redraw) =>
        /\ renderer'.tiledcached_primitives = FromCleared.r.tiledcached_primitives
        /\ renderer'.dirtycached_primitives = FromCleared.r.dirtycached_primitives
        /\ FlagsOf(renderer'.inner.dirty_tiles) = FlagsOf(FromCleared.r.inner.dirty_tiles)
        /\ buffer' = FromCleared.buffer]_vars

\* The cache map of the mode r is in.
CacheMap(r) ==
    IF r.inner.caching = "BlendTiled" THEN r.tiledcached_primitives
    ELSE r.dirtycached_primitives

\* The hashes of the primitives of the call of this step that
\* prim_prepare_update does not drop.
SubmittedHashes ==
    LET jobs == call'.input.paint_jobs
        keys == IF call'.input.full_redraw THEN {} ELSE CacheKeys(renderer)
        upd(k) == prim_prepare_update(renderer.inner, keys, call'.input.pixels_per_point,
                                      k - 1, jobs[k], renderer.inner.caching = "BlendTiled")
    IN  { upd(k).hash : k \in { j \in 1..Len(jobs) : upd(j).tag # "None" } }

\* Rect a lies inside rect b.
RectInside(a, b) ==
    /\ b.min_x <= a.min_x /\ a.max_x <= b.max_x
    /\ b.min_y <= a.min_y /\ a.max_y <= b.max_y

\* C24 as stated: after a render call in a caching mode returned, the keys
\* of the cache map are exactly the hashes of the primitives of the call
\* that were not dropped, every entry has seen_this_frame = TRUE, and the
\* rect of every entry the call removed lies inside the rect the call
\* returned.
C24_CacheHoldsExactlyTheFrame ==
    [][(ContractStep /\ call'.caching \in CachingModes /\ ~call'.panic) =>
        /\ CacheKeys(renderer') = SubmittedHashes
        /\ \A h \in CacheKeys(renderer') : CacheMap(renderer')[h].inner.seen_this_frame
        /\ \A h \in CacheKeys(renderer) \ CacheKeys(renderer') :
               RectInside(CacheMap(renderer)[h].inner.rect, call'.ret)]_vars

\* The rect r lies outside the buffer of the call of this step or its part
\* inside that buffer lies inside the rect the call returned.
InBufferPartReturned(r) ==
    LET full == FullRect(call'.input.size[1], call'.input.size[2])
    IN  (r.min_x < full.max_x /\ r.min_y < full.max_y)
            => RectInside(intersection(r, full), call'.ret)

\* C24 amended: as above, the rect of a removed entry being taken as far as
\* it lies inside the buffer of the call.
C24_CacheHoldsExactlyTheFrameInBuffer ==
    [][(ContractStep /\ call'.caching \in CachingModes /\ ~call'.panic) =>
        /\ CacheKeys(renderer') = SubmittedHashes
        /\ \A h \in CacheKeys(renderer') : CacheMap(renderer')[h].inner.seen_this_frame
        /\ \A h \in CacheKeys(renderer) \ CacheKeys(renderer') :
               InBufferPartReturned(CacheMap(renderer)[h].inner.rect)]_vars

\* A render call that reused one entry and removed another has returned: an
\* entry was not rendered in this frame, none was, and the rect is not empty.
C24_Witness ==
    /\ call.op = "render" /\ call.caching \in CachingModes /\ ~call.panic
    /\ InContract(call) /\ ~call.input.full_redraw
    /\ CacheKeys(renderer) # {}
    /\ \A h \in CacheKeys(renderer) : ~CacheMap(renderer)[h].inner.rendered_this_frame
    /\ ~is_empty(call.ret)

\* C25: an entry that a render call reuses by a hash hit keeps the rect it
\* had, and its bitmap and occupied_tiles (BlendTiled) or its mesh and
\* clip_rect (Mesh modes) are as they were, whatever clip rectangle the
\* primitive has in the frame of the call.
C25_ReusedEntryKeepsRectAndContent ==
    [][(ContractStep /\ call'.caching \in CachingModes /\ ~call'.panic) =>
        \A h \in CacheKeys(renderer) \cap CacheKeys(renderer') :
            ~CacheMap(renderer')[h].inner.rendered_this_frame =>
                /\ CacheMap(renderer')[h].inner.rect = CacheMap(renderer)[h].inner.rect
                /\ [CacheMap(renderer')[h] EXCEPT !.inner = CacheMap(renderer)[h].inner]
                       = CacheMap(renderer)[h]]_vars

\* For each primitive of the frame of the call of this step, whether
\* prim_prepare_update keeps it and, if so, its hash.
FrameHashes ==
    LET jobs == call'.input.paint_jobs
        upd(k) == prim_prepare_update(renderer.inner, {}, call'.input.pixels_per_point,
                                      k - 1, jobs[k], renderer.inner.caching = "BlendTiled")
    IN  [k \in 1..Len(jobs) |->
            IF upd(k).tag = "None" THEN [kept |-> FALSE, hash |-> <<>>]
            ELSE [kept |-> TRUE, hash |-> upd(k).hash]]

\* The last index at which the frame with the hashes hs holds a primitive
\* with hash h.
FrameIndex(hs, h) ==
    SetMax({ k \in 1..Len(hs) : hs[k].kept /\ hs[k].hash = h })

\* The entries of the cache map after this step, in increasing order of the
\* index their primitive has in the frame with the hashes hs.
RECURSIVE InFrameOrder(_, _)
InFrameOrder(hs, keys) ==
    IF keys = {} THEN <<>>
    ELSE LET h == CHOOSE h \in keys :
                    \A g \in keys : FrameIndex(hs, h) <= FrameIndex(hs, g)
         IN  <<CacheMap(renderer')[h]>> \o InFrameOrder(hs, keys \ {h})

\* C26: a render call that redraws gives every recomposited tile
\* (BlendTiled) and the redrawn region (Mesh, MeshTiled) the pixels that
\* drawing the cache entries in increasing order of the index of their
\* primitive in the frame of the call gives, reused entries included.
C26_DrawnInFrameOrder ==
    [][(ContractStep /\ call'.caching \in CachingModes /\ ~call'.panic
            /\ ~is_empty(call'.ret)) =>
        \E hs \in {FrameHashes} :
        \E drawn \in {InFrameOrder(hs, CacheKeys(renderer'))} :
            buffer' = IF call'.caching = "BlendTiled"
                      THEN CompositeTiles(renderer'.inner, drawn, before', 1)
                      ELSE RedrawMeshes(renderer'.inner, drawn, call'.ret, 1, before')]_vars

\* A render call reused two overlapping entries whose order in the list it
\* changed, and redrew them under a new primitive's dirty tile.
C26_Witness ==
    /\ call.op = "render" /\ call.caching \in CachingModes /\ ~call.panic
    /\ ~call.input.full_redraw
    /\ prev.op = "render" /\ ~prev.panic /\ prev.caching = call.caching
    /\ prev.input.paint_jobs = <<JobA, JobOnA>>
    /\ call.input.paint_jobs = <<JobOnA, JobA, JobB>>
    /\ buffer.data[<<0, 0>>] = egui_blend_u8(Red, Green)

\* The flag-array indices (from 0) of the tiles an entry lists in
\* occupied_tiles, for a grid tiles_x wide.
TilesOf(entry, tiles_x) ==
    { entry.occupied_tiles[i][1] + entry.occupied_tiles[i][2] * tiles_x :
          i \in 1..Len(entry.occupied_tiles) }

\* The indices (from 0) of the tiles flagged DIRTY in r.
DirtyTiles(r) ==
    { k - 1 : k \in { j \in 1..Len(r.inner.dirty_tiles) :
                          r.inner.dirty_tiles[j] % 2 = DIRTY_TILE_MASK } }

\* The keys of the entries the call of this step created.
Created ==
    { h \in CacheKeys(renderer') : CacheMap(renderer')[h].inner.rendered_this_frame }

\* The keys of the entries the call of this step found in the cache map,
\* after the clearing of a full redraw, and did not see in its frame.
NotSeen ==
    IF call'.input.full_redraw THEN {} ELSE CacheKeys(renderer) \ CacheKeys(renderer')

\* The tiles of the entries created and of the entries not seen.
ChangedTiles ==
    UNION ({ TilesOf(renderer'.tiledcached_primitives[h], renderer'.inner.tiles_dim[1]) :
                 h \in Created }
           \cup { TilesOf(renderer.tiledcached_primitives[h], renderer'.inner.tiles_dim[1]) :
                      h \in NotSeen })

\* The canvas in which the tiles in dirty were cleared and recomposited from
\* the entries of the cache map after this step, the others left as before.
Recomposited(dirty) ==
    LET tiles_x == renderer'.inner.tiles_dim[1]
        sorted == SortByZ(Values(renderer'.tiledcached_primitives))
        Tile(p) == <<p[1] \div TILE_SIZE, p[2] \div TILE_SIZE>>
    IN  [before' EXCEPT !.data =
            [p \in DOMAIN before'.data |->
                IF Tile(p)[1] + Tile(p)[2] * tiles_x \in dirty
                THEN BlendPrims(sorted, 1, before', Tile(p)[1], Tile(p)[2],
                                before'.height, p, ZeroPx)
                ELSE before'.data[p]]]

\* C27: in a BlendTiled frame in which a primitive appeared or disappeared
\* the tiles flagged DIRTY are exactly the tiles occupied by the entries
\* created in the frame and by the entries not seen in it, and exactly these
\* tiles are cleared and recomposited from the entries that remain.
C27_DirtyTilesAreChangedTiles ==
    [][(ContractStep /\ call'.caching = "BlendTiled" /\ ~call'.panic
            /\ Created \cup NotSeen # {}) =>
        /\ DirtyTiles(renderer') = ChangedTiles
        /\ buffer' = Recomposited(ChangedTiles)]_vars

\* A BlendTiled frame without full redraw dropped an entry that occupied
\* both tiles and reused an entry of the left tile: both tiles are DIRTY, the
\* dropped entry's pixels are cleared and the reused entry is drawn again.
C27_Witness ==
    /\ call.op = "render" /\ call.caching = "BlendTiled" /\ ~call.panic
    /\ ~call.input.full_redraw
    /\ prev.op = "render" /\ ~prev.panic /\ prev.caching = "BlendTiled"
    /\ prev.input.paint_jobs = <<JobFade, JobA>>
    /\ call.input.paint_jobs = <<JobA>>
    /\ DirtyTiles(renderer) = {0, 1}
    /\ buffer.data[<<0, 0>>] = Red
    /\ buffer.data[<<64, 0>>] = ZeroPx

\* The indices (from 0) of the tiles flagged OCCUPIED in r.
OccupiedTiles(r) ==
    { k - 1 : k \in { j \in 1..Len(r.inner.dirty_tiles) :
                          (r.inner.dirty_tiles[j] \div OCCUPIED_TILE_MASK) % 2 = 1 } }

\* C28: after every BlendTiled render call returned, a tile carries the
\* OCCUPIED flag if and only if an entry of the cache map lists it in
\* occupied_tiles, and the flag array has tiles_x * tiles_y elements for the
\* size of the buffer of the call.
C28_OccupiedFlagsMatchCache ==
    [][(ContractStep /\ call'.caching = "BlendTiled" /\ ~call'.panic) =>
        /\ OccupiedTiles(renderer')
               = UNION { TilesOf(renderer'.tiledcached_primitives[h],
                                 renderer'.inner.tiles_dim[1]) :
                             h \in DOMAIN renderer'.tiledcached_primitives }
        /\ Len(renderer'.inner.dirty_tiles)
               = DivCeil(call'.input.size[1], TILE_SIZE)
                     * DivCeil(call'.input.size[2], TILE_SIZE)]_vars

\* C29: the list set_bboxes produced holds no two rects with the same
\* [min_x, max_x) of which one ends (max_y) where the other starts (min_y).
C29_ProducedListIsMinimal ==
    query.op = "set_bboxes" =>
        \A i, j \in 1..Len(Produced) :
            ~(/\ Produced[i].min_x = Produced[j].min_x
              /\ Produced[i].max_x = Produced[j].max_x
              /\ Produced[i].max_y = Produced[j].min_y)

\* Every unit of the running phase has walked all its tiles.
UnitsDone(tiles(_, _)) ==
    \A tile_row \in DOMAIN units.done :
        units.done[tile_row] = Len(tiles(units.self, tile_row))

\* C30: when rows of tiles are composited or blitted by parallel units, a
\* pixel is written by the unit of its own row of tiles only, under every
\* interleaving, and once the units have finished the canvas and the buffer
\* are those of the sequential tile walk.
C30_RowUnitsEqualSequentialWalk ==
    /\ \A p \in DOMAIN units.writers : units.writers[p] \subseteq {p[2] \div TILE_SIZE}
    /\ (units.phase = "composite" /\ UnitsDone(CompositeRowTiles))
           => units.canvas = render_from_tiledcache(units.self,
                                 [k \in 1..Len(units.sorted) |-> units.sorted[k]],
                                 units.canvas0)
    /\ (units.phase = "blit" /\ UnitsDone(BlitRowTiles))
           => units.buffer = blit_to_buffer_from_tiledcanvas(units.self, units.canvas,
                                                              units.buffer0).buffer

\* Both rows of tiles were blitted after a walk that composited tiles of
\* both rows, and the lower right tile shows its quad over the background.
C30_Witness ==
    /\ units.phase = "blit" /\ UnitsDone(BlitRowTiles)
    /\ \A tile_row \in DOMAIN units.done : units.done[tile_row] > 0
    /\ \A tile_row \in DOMAIN units.done : CompositeRowTiles(units.self, tile_row) # <<>>
    /\ units.canvas # units.canvas0
    /\ units.buffer.data[<<64, 64>>] = Blue

\* C31: while the units of a frame prepare their primitives in parallel the
\* cache map and the texture store stay as the frame found them; the updates
\* are applied afterwards, in input order, so that the cache map after the
\* frame is the one of the sequential walk, whatever order the units
\* completed in.
C31_WriteBackIgnoresCompletionOrder ==
    /\ units.self = units.self0
    /\ units.phase = "prepare" => units.cached = units.cached0
    /\ units.phase = "apply" =>
           units.collected = [k \in 1..Len(units.paint_jobs) |-> units.updates[k]]
    /\ (units.phase = "apply" /\ units.applied = Len(units.collected)) =>
           units.cached = render_prims_to_cache(units.self0, units.cached0,
                                                units.paint_jobs, 1, units.tiled_mode)

\* The write-back has finished for a frame whose units completed out of
\* input order and in which two updates insert under the same hash.
C31_Witness ==
    /\ units.phase = "apply" /\ units.applied = Len(units.collected)
    /\ \E i, j \in 1..Len(units.completed) : i < j /\ units.completed[i] > units.completed[j]
    /\ \E i, j \in 1..Len(units.collected) :
           /\ i < j
           /\ units.collected[i].tag = "New" /\ units.collected[j].tag = "New"
           /\ units.collected[i].hash = units.collected[j].hash
    /\ units.cached # units.cached0

\* The draw calls draw_egui_mesh issues for a paint job with both
\* optimisations on, and the prepared mesh they index.
RectDraws(job) ==
    LET pp == prim_prepare_px_mesh(1, 1, job)
    IN  IF ~pp.some THEN {}
        ELSE LET ops == MeshDraws(pp.px_mesh, <<0, 0>>, White, TRUE, TRUE, 1)
             IN  {[op |-> ops[k], px_mesh |-> pp.px_mesh] : k \in 1..Len(ops)}

\* The colours of the six vertices of the two triangles at index position at.
PairColours(px_mesh, at) ==
    {px_mesh.vertices[px_mesh.indices[at + j] + 1].color : j \in 1..6}

\* C32: with both optimisations on, two consecutive triangles are drawn as
\* one rectangle only if all their six vertices have the same colour.
C32_RectOnlyForOneColour ==
    (shots.last.taken /\ shots.last.allow_raster_opt /\ shots.last.convert_tris_to_rects) =>
        \A k \in 1..Len(shots.frame) : \A d \in RectDraws(shots.frame[k]) :
            d.op.kind = "rect" => Cardinality(PairColours(d.px_mesh, d.op.at)) = 1

\* The two triangles at index position at (the code's i) pass the rectangle
\* test: the first has one colour, all six vertices sit on corners of its
\* bounding box and its doubled area is the area of the box.
PassesRectTest(px_mesh, at) ==
    LET vert(k) == px_mesh.vertices[px_mesh.indices[at + k] + 1]
        tri     == <<vert(1), vert(2), vert(3)>>
        tri2    == <<vert(4), vert(5), vert(6)>>
        tri_min == <<SetMin({tri[k].pos[1] : k \in 1..3}), SetMin({tri[k].pos[2] : k \in 1..3})>>
        tri_max == <<SetMax({tri[k].pos[1] : k \in 1..3}), SetMax({tri[k].pos[2] : k \in 1..3})>>
        area    == egui_orient2df(tri[1].pos, tri[2].pos, tri[3].pos)
        rect_area == (tri_max[1] - tri_min[1]) * (tri_max[2] - tri_min[2])
    IN  /\ tri[1].color = tri[2].color /\ tri[1].color = tri[3].color
        /\ tri_verts_match_corners(tri_min, tri_max, tri, tri2)
        /\ (IF area < 0 THEN -area ELSE area) - rect_area < 2
        /\ rect_area - (IF area < 0 THEN -area ELSE area) < 2

\* C33: with both optimisations on, a triangle that is drawn on its own is
\* not the first of two consecutive triangles that pass the rectangle test,
\* wherever it is in the index list, and no index triple is drawn twice.
C33_EveryMatchingPairIsOneRect ==
    (shots.last.taken /\ shots.last.allow_raster_opt /\ shots.last.convert_tris_to_rects) =>
        \A k \in 1..Len(shots.frame) : \A d \in RectDraws(shots.frame[k]) :
            /\ (d.op.kind = "tri" /\ d.op.at + 6 <= Len(d.px_mesh.indices))
                   => ~PassesRectTest(d.px_mesh, d.op.at)
            /\ \A e \in RectDraws(shots.frame[k]) :
                   (e.op.at > d.op.at) =>
                       e.op.at >= d.op.at + (IF d.op.kind = "rect" THEN 6 ELSE 3)

\* What run_app_with_software_backend returns when the application error e
\* is held and event_loop.run_app returned Err or Ok.
Returned(e, event_loop_error) ==
    IF event_loop_error
    THEN [tag |-> "Err", error |-> [tag |-> "SuppressedEventLoop", suppressed |-> e]]
    ELSE [tag |-> "Err", error |-> e]

CloseCancelled(commands) ==
    \E i, j \in 1..Len(commands) :
        /\ i < j /\ commands[i] = "Close" /\ commands[j] = "CancelClose"
        /\ \A k \in (j + 1)..Len(commands) : commands[k] # "Close"

\* C40: a redraw whose frame issues Close and later CancelClose neither hides
\* the window nor asks the event loop to exit.
C40_CancelCloseCancelsTheClose ==
    (app.event.kind = "RedrawRequested" /\ app.event.fails = "none"
            /\ CloseCancelled(app.event.commands)) =>
        ~app.hides /\ ~app.handled.exit /\ ~app.exiting

\* C35: the rect a render call returns lies inside the buffer of the call:
\* min_x <= max_x <= width and min_y <= max_y <= height.
C35_ReturnedRectInsideBuffer ==
    (call.op \in {"render", "canvas_render"} /\ ~call.panic) =>
        /\ call.ret.min_x <= call.ret.max_x /\ call.ret.max_x <= call.input.size[1]
        /\ call.ret.min_y <= call.ret.max_y /\ call.ret.max_y <= call.input.size[2]

\* C36: after a render call in a caching mode every primitive of the frame
\* that was not dropped has a cache entry of its own, drawn at the
\* primitive's position in the input order, also when two primitives of the
\* frame have the same hash.
C36_EveryPrimitiveDrawnAtItsPosition ==
    [][(ContractStep /\ call'.caching \in CachingModes /\ ~call'.panic) =>
        \E hs \in {FrameHashes} :
            /\ \A k \in 1..Len(hs) :
                   hs[k].kept =>
                       /\ hs[k].hash \in CacheKeys(renderer')
                       /\ CacheMap(renderer')[hs[k].hash].inner.z_order = k - 1
            /\ Cardinality(CacheKeys(renderer'))
                   = Cardinality({k \in 1..Len(hs) : hs[k].kept})]_vars

\* The last two calls are renders of one frame in one caching mode at one
\* size: the first with full redraw on a zeroed buffer while Managed(0) is
\* set to white, the second without full redraw and with a delta that gives
\* Managed(0), which a primitive of the frame uses, other pixels.
TextureChanged ==
    /\ nrender = 2 /\ naux = 0
    /\ call.op = "render" /\ call.caching \in CachingModes /\ ~call.panic /\ ~prev.panic
    /\ prev.input.full_redraw /\ ~call.input.full_redraw
    /\ prev.input.textures_delta = SetWhite
    /\ call.input.textures_delta \in {SetDark, PatchDark}
    /\ call.input.paint_jobs = prev.input.paint_jobs
    /\ \E k \in 1..Len(call.input.paint_jobs) : call.input.paint_jobs[k] = JobA

\* The frame of the last call drawn from scratch with the textures the
\* renderer now holds.
DrawnAnew ==
    render([NewRenderer(call.caching) EXCEPT !.inner.textures = renderer.inner.textures],
           ZeroBuffer(call.input.size[1], call.input.size[2]), TRUE,
           call.input.paint_jobs, NoDelta, call.input.pixels_per_point).buffer

\* C37: when the delta of a frame replaces or patches a texture that a
\* primitive unchanged since the previous frame uses, the pixels of that
\* primitive show the new texture after the frame and lie inside the
\* returned rect.
C37_TextureChangeIsDrawn ==
    TextureChanged =>
        \A p \in DOMAIN buffer.data :
            (p[1] < 32) =>
                /\ buffer.data[p] = DrawnAnew.data[p]
                /\ Inside(p, call.ret)

\* The last two calls are BlendTiled renders of one frame at one size: the
\* first with full redraw on a zeroed buffer while the store does not hold
\* Managed(0), which a primitive of the frame uses, the second without full
\* redraw and with the delta that uploads it.
TextureArrived ==
    /\ nrender = 2 /\ naux = 0
    /\ call.op = "render" /\ call.caching = "BlendTiled" /\ ~call.panic /\ ~prev.panic
    /\ prev.input.full_redraw /\ ~call.input.full_redraw
    /\ ~prev.textures[Tex0].present /\ prev.input.textures_delta = NoDelta
    /\ call.input.textures_delta = SetWhite
    /\ call.input.paint_jobs = prev.input.paint_jobs
    /\ \E k \in 1..Len(call.input.paint_jobs) : call.input.paint_jobs[k] = JobA

\* C38: in BlendTiled mode a primitive first submitted while its texture was
\* absent is drawn in the first later frame in which the texture is present,
\* though the primitive itself is unchanged.
C38_LateTextureIsDrawn ==
    TextureArrived =>
        \A p \in DOMAIN buffer.data : (p[1] < 32) => buffer.data[p] = DrawnAnew.data[p]

\* C39: after every call of EguiSoftwareRenderCanvas::render in a caching
\* mode with a zeroed buffer of one size, the buffer equals the canvas.
C39_BufferShowsTheCanvas ==
    (call.op = "canvas_render" /\ call.caching \in CachingModes /\ ~call.panic
            /\ (nrender = 2 => prev.op = "canvas_render" /\ prev.input.size = call.input.size))
        => buffer.data = canvas.data

====
